---- MODULE Spec2Model ----
(***************************************************************************)
(* RAIL C++ SDK: the instance registry (instance_registry.cpp), the        *)
(* reflective command dispatcher (dispatcher.cpp) and the threads that use *)
(* them (the application thread and the bridge callback thread).           *)
(*                                                                         *)
(* Text is a sequence of character tokens.  The three characters JSON      *)
(* treats specially inside a string are tokens of their own (Q, BS, NL);   *)
(* a run of ordinary characters that the code never looks into (a word     *)
(* such as OrderManager, a fixed message) is one token.                    *)
(***************************************************************************)
EXTENDS Integers, Sequences, FiniteSets, TLC

\* ------------------------------------------------------------------ bounds
\* Longest method-field string drawn over NameAlphabet.
MaxStrLen == 3
\* Longest positional args array.
MaxArgs == 2
\* Largest value the hosted GetOrderCount returns.
MaxCount == 1
\* The number of Ignite and Disconnect calls of a run.
MaxLife == 3
\* The number of Doom commands of a run.
MaxCommands == 2

\* ------------------------------------------------------------- text tokens
Q == "\""
BS == "\\"
NL == "\n"
SP == " "
DOT == "."

RECURSIVE StringsOver(_, _)
StringsOver(A, n) ==
    IF n = 0 THEN {<<>>}
    ELSE LET S == StringsOver(A, n - 1)
         IN  S \cup {Append(s, c) : s \in S, c \in A}

\* std::string::rfind(c): the last position of c, 0 for npos.
RECURSIVE RFindFrom(_, _, _)
RFindFrom(s, c, i) ==
    IF i = 0 THEN 0
    ELSE IF s[i] = c THEN i
    ELSE RFindFrom(s, c, i - 1)

RFind(s, c) == RFindFrom(s, c, Len(s))

\* std::string::substr(pos) with pos the 0-based offset dotPos + 1.
SubstrAfter(s, dotPos) == SubSeq(s, dotPos + 1, Len(s))

\* std::string::substr(0, dotPos).
SubstrBefore(s, dotPos) == SubSeq(s, 1, dotPos - 1)

\* ---------------------------------------------------------- JSON documents
\* nlohmann::json values, tagged by value_t.
JNull == [t |-> "null"]
JStr(s) == [t |-> "string", v |-> s]
JInt(n) == [t |-> "int", v |-> n]
\* A number with a fraction part: its whole part and its fraction digits.
JFloat(whole, frac) == [t |-> "float", whole |-> whole, frac |-> frac]
JBool(b) == [t |-> "bool", v |-> b]
JArr(seq) == [t |-> "array", v |-> seq]
JObj(f) == [t |-> "object", v |-> f]

\* basic_json::contains(key): false on anything that is not an object.
JContains(j, key) == j.t = "object" /\ key \in DOMAIN j.v

\* basic_json::size(): elements of an array or object, 0 for null, else 1.
JSize(j) ==
    IF j.t = "array" THEN Len(j.v)
    ELSE IF j.t = "object" THEN Cardinality(DOMAIN j.v)
    ELSE IF j.t = "null" THEN 0
    ELSE 1

\* What json::parse makes of a command text: a document, or a parse_error
\* whose what() quotes the offending input.
Unparsable(what) == [parse |-> "error", what |-> what]
Parsable(doc) == [parse |-> "ok", doc |-> doc]

\* --------------------------------------------------------- JSON text output
\* Characters a JSON string may not hold raw.
IsControl(c) == c = NL
NeedsEscape(c) == c = Q \/ c = BS \/ IsControl(c)

\* nlohmann's dump() of a string's characters: \" \\ and \n for newline.
RECURSIVE DumpEscape(_)
DumpEscape(s) ==
    IF s = <<>> THEN <<>>
    ELSE LET c == Head(s)
             e == IF c = Q THEN <<BS, Q>>
                  ELSE IF c = BS THEN <<BS, BS>>
                  ELSE IF c = NL THEN <<BS, "n">>
                  ELSE <<c>>
         IN  e \o DumpEscape(Tail(s))

\* Mutant of ResultText: the value is written as a native JSON literal.
ResultTextNative(resStr) == <<"{", Q, "result", Q, ":">> \o resStr \o <<"}">>

\* json resJson; resJson["result"] = resStr; resJson.dump()
ResultText(resStr) == <<"{", Q, "result", Q, ":", Q>> \o DumpEscape(resStr) \o <<Q, "}">>

\* "{\"error\": \"" + msg + "\"}": the message is spliced in as it is.
ErrorText(msg) == <<"{", Q, "error", Q, ":", SP, Q>> \o msg \o <<Q, "}">>

\* The literal "{\"result\": \"void\"}".
VoidText == <<"{", Q, "result", Q, ":", SP, Q, "void", Q, "}">>

\* ------------------------------------------------- reading a response text
\* How a JSON reader sees a response text: an object text is
\* { "key" : "value" , ... } with optional blanks between the tokens.  The
\* command strings of this model hold no digit, bracket or literal outside
\* a word, so a value that is not a string cannot be spelled here.
Malformed == [ok |-> FALSE, members |-> <<>>]

\* The characters that may follow a backslash inside a string.
EscapeFollowers == {Q, BS, "n"}

RECURSIVE SkipWs(_, _)
SkipWs(t, i) == IF i <= Len(t) /\ t[i] = SP THEN SkipWs(t, i + 1) ELSE i

\* From inside a string at i: the position after its closing quote, 0 when
\* the string holds a raw control character, a bad escape, or never closes.
RECURSIVE ScanChars(_, _)
ScanChars(t, i) ==
    IF i > Len(t) THEN 0
    ELSE IF t[i] = Q THEN i + 1
    ELSE IF t[i] = BS
         THEN IF i + 1 <= Len(t) /\ t[i + 1] \in EscapeFollowers
              THEN ScanChars(t, i + 2)
              ELSE 0
    ELSE IF IsControl(t[i]) THEN 0
    ELSE ScanChars(t, i + 1)

ScanString(t, i) == IF i <= Len(t) /\ t[i] = Q THEN ScanChars(t, i + 1) ELSE 0

\* The characters an escaped string body stands for.
RECURSIVE Unescape(_)
Unescape(s) ==
    IF s = <<>> THEN <<>>
    ELSE IF Head(s) = BS /\ Len(s) >= 2
         THEN <<(IF s[2] = "n" THEN NL ELSE s[2])>> \o Unescape(Tail(Tail(s)))
    ELSE <<Head(s)>> \o Unescape(Tail(s))

RECURSIVE ReadMembers(_, _, _)
ReadMembers(t, i, members) ==
    LET kEnd == ScanString(t, i)
    IN  IF kEnd = 0 THEN Malformed
        ELSE LET c == SkipWs(t, kEnd)
             IN  IF c > Len(t) \/ t[c] # ":" THEN Malformed
                 ELSE LET vStart == SkipWs(t, c + 1)
                          vEnd == ScanString(t, vStart)
                      IN  IF vEnd = 0 THEN Malformed
                          ELSE LET n == SkipWs(t, vEnd)
                                   m == [key |-> Unescape(SubSeq(t, i + 1, kEnd - 2)),
                                         value |-> Unescape(SubSeq(t, vStart + 1, vEnd - 2))]
                               IN  IF n > Len(t) THEN Malformed
                                   ELSE IF t[n] = "}"
                                        THEN IF SkipWs(t, n + 1) > Len(t)
                                             THEN [ok |-> TRUE, members |-> Append(members, m)]
                                             ELSE Malformed
                                   ELSE IF t[n] = ","
                                        THEN ReadMembers(t, SkipWs(t, n + 1), Append(members, m))
                                   ELSE Malformed

ReadObject(t) ==
    LET s == SkipWs(t, 1)
    IN  IF s > Len(t) \/ t[s] # "{" THEN Malformed
        ELSE LET m == SkipWs(t, s + 1)
             IN  IF m <= Len(t) /\ t[m] = "}"
                 THEN IF SkipWs(t, m + 1) > Len(t)
                      THEN [ok |-> TRUE, members |-> <<>>]
                      ELSE Malformed
                 ELSE ReadMembers(t, m, <<>>)

IsJsonObjectText(t) == ReadObject(t).ok

\* The top-level keys a reader finds in a response (none in a text that
\* is not a JSON object).
TopLevelKeys(t) ==
    LET r == ReadObject(t)
    IN  {r.members[i].key : i \in 1..Len(r.members)}

\* ------------------------------------------------------ reflection catalog
\* RTTR_REGISTRATION of RailBinding.cpp over OrderManager.h: each method's
\* name, declared parameters (name, type) in order, and return type.
OrderManagerMethods ==
    { [name |-> "CreateOrder",
       params |-> << [name |-> "clientName", type |-> "string"],
                     [name |-> "quantity", type |-> "int"] >>,
       ret |-> "bool", desc |-> <<"Creates a new order for a client">>],
      [name |-> "GetOrderCount", params |-> <<>>, ret |-> "int",
       desc |-> <<"Returns total number of active orders">>],
      [name |-> "CancelOrder",
       params |-> << [name |-> "orderId", type |-> "int"] >>,
       ret |-> "void", desc |-> <<"Cancels an existing order by ID">>] }

\* A registration beside the example's: a class whose methods declare six
\* and seven int parameters, the two sides of the switch on the argument
\* count.
PNames == <<"p1", "p2", "p3", "p4", "p5", "p6", "p7">>
WideParams(n) == [i \in 1..n |-> [name |-> PNames[i], type |-> "int"]]
WideMethods ==
    { [name |-> "Six", params |-> WideParams(6), ret |-> "int", desc |-> <<>>],
      [name |-> "Seven", params |-> WideParams(7), ret |-> "int", desc |-> <<>>] }

TypeMethods(class) ==
    IF class = "OrderManager" THEN OrderManagerMethods
    ELSE IF class = "Wide" THEN WideMethods
    ELSE {}

\* An rttr::method that is_valid() is false for.
InvalidMethod == [name |-> "", params |-> <<>>, ret |-> "invalid", desc |-> <<>>]

\* Mutant of GetMethod: names are compared without regard to case.
Lower(name) ==
    CASE name \in {<<"GetOrderCount">>, <<"GETORDERCOUNT">>} -> <<"getordercount">>
      [] OTHER -> name
GetMethodIgnoreCase(class, methodName) ==
    IF \E m \in TypeMethods(class) : Lower(<<m.name>>) = Lower(methodName)
    THEN CHOOSE m \in TypeMethods(class) : Lower(<<m.name>>) = Lower(methodName)
    ELSE InvalidMethod

\* type.get_method(methodName): the method of exactly that name.
GetMethod(class, methodName) ==
    IF \E m \in TypeMethods(class) : <<m.name>> = methodName
    THEN CHOOSE m \in TypeMethods(class) : <<m.name>> = methodName
    ELSE InvalidMethod

\* ------------------------------------------------------------ rttr::variant
InvalidVariant == [valid |-> FALSE]
Variant(type, v) == [valid |-> TRUE, type |-> type, v |-> v]

\* A variant that holds a hosted object: by std::ref (a wrapper type), by
\* pointer, or by value.
InstanceVariant(kind, class, obj) ==
    [valid |-> TRUE, kind |-> kind, class |-> class, obj |-> obj]

\* hello_world_rttr.cpp registers std::ref(myOrderManager).
InstA == InstanceVariant("wrapper", "OrderManager", "A")
InstB == InstanceVariant("pointer", "OrderManager", "B")
InstW == InstanceVariant("pointer", "Wide", "W")
Instances == {InstA, InstB, InstW}

\* instance.get_type(), then one level of pointer or wrapper taken off.
UnwrappedClass(instance) == instance.class

\* ----------------------------------------------------------- type coercion
Thrown(what) == [thrown |-> TRUE, what |-> what]
Value(v) == [thrown |-> FALSE, v |-> v]

Digits == {"0", "1", "2", "3", "4", "5", "6", "7", "8", "9"}
DigitVal(c) ==
    CASE c = "0" -> 0 [] c = "1" -> 1 [] c = "2" -> 2 [] c = "3" -> 3
      [] c = "4" -> 4 [] c = "5" -> 5 [] c = "6" -> 6 [] c = "7" -> 7
      [] c = "8" -> 8 [] c = "9" -> 9

\* The value of the longest run of digits of s from position i on, and how
\* many digits it has.
RECURSIVE DigitRun(_, _, _, _)
DigitRun(s, i, acc, n) ==
    IF i <= Len(s) /\ s[i] \in Digits
    THEN DigitRun(s, i + 1, acc * 10 + DigitVal(s[i]), n + 1)
    ELSE [value |-> acc, count |-> n]

\* strtol as std::stoi uses it: blanks, an optional sign, digits; whatever
\* follows the digits is ignored.  No digit: invalid_argument; a value that
\* does not fit an int: out_of_range.  what() names the function.
StoNumber(s, fn) ==
    LET start == SkipWs(s, 1)
        signed == start <= Len(s) /\ s[start] \in {"-", "+"}
        first == IF signed THEN start + 1 ELSE start
        run == DigitRun(s, first, 0, 0)
        val == IF signed /\ s[start] = "-" THEN 0 - run.value ELSE run.value
    IN  IF run.count = 0 THEN Thrown(<<fn>>)
        ELSE IF val > 2147483647 \/ val < (0 - 2147483647) - 1 THEN Thrown(<<fn>>)
        ELSE Value(val)

Stoi(s) == StoNumber(s, "stoi")

\* std::to_string-like decimal text of an integer.
RECURSIVE NatText(_)
NatText(n) ==
    LET d == CHOOSE c \in Digits : DigitVal(c) = n % 10
    IN  IF n < 10 THEN <<d>> ELSE Append(NatText(n \div 10), d)

IntText(n) == IF n < 0 THEN <<"-">> \o NatText(0 - n) ELSE NatText(n)

\* basic_json::dump() of a value: its JSON text.
RECURSIVE JDump(_)
RECURSIVE JDumpSeq(_)
RECURSIVE JDumpMembers(_, _)
JDump(j) ==
    CASE j.t = "null" -> <<"null">>
      [] j.t = "bool" -> IF j.v THEN <<"true">> ELSE <<"false">>
      [] j.t = "int" -> IntText(j.v)
      [] j.t = "float" -> IntText(j.whole) \o <<".">> \o j.frac
      [] j.t = "string" -> <<Q>> \o DumpEscape(j.v) \o <<Q>>
      [] j.t = "array" -> <<"[">> \o JDumpSeq(j.v) \o <<"]">>
      [] j.t = "object" -> <<"{">> \o JDumpMembers(j.v, DOMAIN j.v) \o <<"}">>

JDumpSeq(seq) ==
    IF seq = <<>> THEN <<>>
    ELSE IF Len(seq) = 1 THEN JDump(seq[1])
    ELSE JDump(seq[1]) \o <<",">> \o JDumpSeq(Tail(seq))

\* Members one key after the other, in one fixed order of the keys.
JDumpMembers(f, keys) ==
    IF keys = {} THEN <<>>
    ELSE LET k == CHOOSE x \in keys : TRUE
             one == <<Q, k, Q, ":">> \o JDump(f[k])
         IN  IF keys = {k} THEN one
             ELSE one \o <<",">> \o JDumpMembers(f, keys \ {k})

\* Mutant of DumpFallback: a value that is no string gives no argument.
DumpFallbackNone(jVal) == InvalidVariant

\* Line 34: return jVal.dump().
DumpFallback(jVal) == Variant("string", JDump(jVal))

\* Mutant of StringIsTrue: the comparison takes no account of case.
StringIsTrueAnyCase(str) == str \in {<<"true">>, <<"True">>, <<"TRUE">>}

\* Line 30: jVal.get<std::string>() == "true".
StringIsTrue(str) == str = <<"true">>

\* JsonToVariant(jVal, targetType).  A float or double keeps the number's
\* whole part and fraction digits; the strings of this model spell whole
\* numbers only.
JsonToVariant(jVal, targetType) ==
    IF targetType = "int" /\ jVal.t = "int" THEN Value(Variant("int", jVal.v))
    ELSE IF targetType = "int" /\ jVal.t = "string"
         THEN LET r == Stoi(jVal.v)
              IN  IF r.thrown THEN r ELSE Value(Variant("int", r.v))
    ELSE IF targetType \in {"float", "double"} /\ jVal.t = "int"
         THEN Value(Variant(targetType, [whole |-> jVal.v, frac |-> <<>>]))
    ELSE IF targetType \in {"float", "double"} /\ jVal.t = "float"
         THEN Value(Variant(targetType, [whole |-> jVal.whole, frac |-> jVal.frac]))
    ELSE IF targetType \in {"float", "double"} /\ jVal.t = "string"
         THEN LET r == StoNumber(jVal.v, IF targetType = "float" THEN "stof" ELSE "stod")
              IN  IF r.thrown THEN r
                  ELSE Value(Variant(targetType, [whole |-> r.v, frac |-> <<>>]))
    ELSE IF targetType = "bool" /\ jVal.t = "bool" THEN Value(Variant("bool", jVal.v))
    ELSE IF targetType = "bool" /\ jVal.t = "string"
         THEN Value(Variant("bool", StringIsTrue(jVal.v)))
    ELSE IF targetType = "string" /\ jVal.t = "string"
         THEN Value(Variant("string", jVal.v))
    ELSE IF targetType = "string" THEN Value(DumpFallback(jVal))
    ELSE Value(InvalidVariant)

\* ------------------------------------------------------- dispatcher texts
MissingMethodText == ErrorText(<<"Invalid JSON command structure: missing method">>)

NoDotText(methodNameFull) ==
    ErrorText(<<"Invalid JSON command structure: missing class or context, and method name '">>
              \o methodNameFull \o <<"' has no dot separator.">>)

InstanceNotFoundText(ctx) == ErrorText(<<"Instance not found: ">> \o ctx)

MethodNotFoundText(name, typeName) ==
    ErrorText(<<"Method not found: ">> \o name \o <<" on type ", typeName>>)

TooManyText == ErrorText(<<"Too many arguments (max 6 supported)">>)

InvocationFailedText == ErrorText(<<"Invocation failed (returned invalid variant)">>)

ParseErrorText(what) == ErrorText(<<"JSON parse error: ">> \o what)

DispatchExceptionText(what) == ErrorText(<<"Dispatch exception: ">> \o what)

\* what() of the json::type_error a non-string field raises on conversion
\* to std::string.
TypeErrorWhat(j) == <<"[json.exception.type_error.302] type must be string, but is ", j.t>>

\* what() of the json::parse_error for a text json::parse rejects: it ends
\* with the input the parser read last.
ParseErrorWhat(lastRead) ==
    <<"[json.exception.parse_error.101] parse error: syntax error; last read: '">>
    \o lastRead \o <<"'">>

\* ----------------------------------------------- dispatcher: lines 41 to 66
\* How far the first part of DispatchCommand gets: it returns a text, an
\* exception reaches the catch clauses, or the context is resolved.
Returned(text) == [kind |-> "return", text |-> text]
Raised(clause, what) == [kind |-> "throw", clause |-> clause, what |-> what]
Resolved(ctx, name) == [kind |-> "resolved", context |-> ctx, methodName |-> name]

\* std::string x = cmd[key]: the string, or a type_error.
AsString(j) ==
    IF j.t = "string" THEN Value(j.v) ELSE Thrown(TypeErrorWhat(j))

\* cmd[key] on the parsed document: the member, null when there is none.
JAt(cmd, key) == IF JContains(cmd, key) THEN cmd.v[key] ELSE JNull

\* Mutant of HasMethod: a class key passes the check as well.
HasMethodOrClass(cmd) == JContains(cmd, "method") \/ JContains(cmd, "class")

\* Line 43: cmd.contains("method").
HasMethod(cmd) == JContains(cmd, "method")

\* Mutant of SelectContextField: the context key is tried before the class key.
SelectContextFieldContextFirst(cmd) ==
    IF JContains(cmd, "context") THEN "context"
    ELSE IF JContains(cmd, "class") /\ JAt(cmd, "class").t # "null" THEN "class"
    ELSE "method"

\* Lines 53 to 57: which source the context is taken from.
SelectContextField(cmd) ==
    IF JContains(cmd, "class") /\ JAt(cmd, "class").t # "null" THEN "class"
    ELSE IF JContains(cmd, "context") THEN "context"
    ELSE "method"

\* Mutant of SplitMethod: a method without a dot is its own context.
SplitMethodWholeName(methodNameFull) ==
    LET dotPos == RFind(methodNameFull, DOT)
    IN  IF dotPos # 0
        THEN Resolved(SubstrBefore(methodNameFull, dotPos),
                      SubstrAfter(methodNameFull, dotPos))
        ELSE Resolved(methodNameFull, methodNameFull)

\* Lines 59 to 65: the method field split at its last dot.
SplitMethod(methodNameFull) ==
    LET dotPos == RFind(methodNameFull, DOT)
    IN  IF dotPos # 0
        THEN Resolved(SubstrBefore(methodNameFull, dotPos),
                      SubstrAfter(methodNameFull, dotPos))
        ELSE Returned(NoDotText(methodNameFull))

\* Mutant of ParseAndResolve: the explicit context is converted before the
\* method key is looked for.
ParseAndResolveContextFirst(jsonCmd) ==
    IF jsonCmd.parse = "error"
    THEN Raised("parse_error", ParseErrorWhat(jsonCmd.what))
    ELSE
    LET cmd == jsonCmd.doc
        methodNameFull == AsString(JAt(cmd, "method"))
        field == SelectContextField(cmd)
        explicit == AsString(JAt(cmd, field))
    IN  IF field # "method" /\ explicit.thrown THEN Raised("std::exception", explicit.what)
        ELSE IF ~HasMethod(cmd) THEN Returned(MissingMethodText)
        ELSE IF methodNameFull.thrown THEN Raised("std::exception", methodNameFull.what)
        ELSE IF field = "method" THEN SplitMethod(methodNameFull.v)
        ELSE Resolved(explicit.v, methodNameFull.v)

\* Lines 41 to 66: parse, the method key, the context.
ParseAndResolve(jsonCmd) ==
    IF jsonCmd.parse = "error"
    THEN Raised("parse_error", ParseErrorWhat(jsonCmd.what))
    ELSE
    LET cmd == jsonCmd.doc
        methodNameFull == AsString(JAt(cmd, "method"))
        field == SelectContextField(cmd)
        explicit == AsString(JAt(cmd, field))
    IN  IF ~HasMethod(cmd) THEN Returned(MissingMethodText)
        ELSE IF methodNameFull.thrown THEN Raised("std::exception", methodNameFull.what)
        ELSE IF field = "method" THEN SplitMethod(methodNameFull.v)
        ELSE IF explicit.thrown THEN Raised("std::exception", explicit.what)
        ELSE Resolved(explicit.v, methodNameFull.v)

\* The catch clauses, lines 161 to 167.
CatchText(raised) ==
    IF raised.clause = "parse_error" THEN ParseErrorText(raised.what)
    ELSE DispatchExceptionText(raised.what)

\* ---------------------------------------------- dispatcher: lines 74 to 130
\* Mutant of StripPrefix: the name is looked up as it stands.
StripPrefixNever(name, methodNameFull) == name

\* Lines 77 to 82: a method name that is still the full field loses
\* everything up to its last dot.
StripPrefix(name, methodNameFull) ==
    IF name = methodNameFull /\ RFind(name, DOT) # 0
    THEN SubstrAfter(name, RFind(name, DOT))
    ELSE name

NoValue == [has |-> FALSE]
HasValue(j) == [has |-> TRUE, j |-> j]

\* Mutant of PositionalSource: the array is read from its end.
PositionalSourceReversed(jArgs, i, param) ==
    IF i - 1 < JSize(jArgs) THEN HasValue(jArgs.v[JSize(jArgs) - i + 1]) ELSE NoValue

\* Lines 109 to 117: slot i takes args[i] when the array has it.
PositionalSource(jArgs, i, param) ==
    IF i - 1 < JSize(jArgs) THEN HasValue(jArgs.v[i]) ELSE NoValue

\* Mutant of NamedSource: slot i takes the i-th member of the mapping as the
\* command text lists them, here with the last declared name first.
KeyRank(k) == CASE k = "quantity" -> 1 [] k = "orderId" -> 2 [] k = "clientName" -> 3 [] OTHER -> 4
NamedSourceByPosition(jArgs, i, param) ==
    LET keys == DOMAIN jArgs.v
        ith == {k \in keys : Cardinality({j \in keys : KeyRank(j) < KeyRank(k)}) = i - 1}
    IN  IF ith # {} THEN HasValue(jArgs.v[CHOOSE k \in ith : TRUE]) ELSE NoValue

\* Lines 118 to 128: slot i takes the value under the parameter's name.
NamedSource(jArgs, i, param) ==
    IF JContains(jArgs, param.name) THEN HasValue(jArgs.v[param.name]) ELSE NoValue

ArgSource(jArgs, i, param) ==
    IF jArgs.t = "array" THEN PositionalSource(jArgs, i, param)
    ELSE IF jArgs.t = "object" THEN NamedSource(jArgs, i, param)
    ELSE NoValue

\* The slots from i on, appended to acc; the first JsonToVariant that
\* throws ends the loop.
RECURSIVE BuildFrom(_, _, _, _)
BuildFrom(params, jArgs, i, acc) ==
    IF i > Len(params) THEN Value(acc)
    ELSE LET src == ArgSource(jArgs, i, params[i])
         IN  IF ~src.has
             THEN BuildFrom(params, jArgs, i + 1, Append(acc, InvalidVariant))
             ELSE LET r == JsonToVariant(src.j, params[i].type)
                  IN  IF r.thrown THEN r
                      ELSE BuildFrom(params, jArgs, i + 1, Append(acc, r.v))

\* Lines 102 to 130: argsVariants, one slot per declared parameter.
BuildArguments(method, cmd) ==
    IF JContains(cmd, "args")
    THEN BuildFrom(method.params, JAt(cmd, "args"), 1, <<>>)
    ELSE Value([i \in 1..Len(method.params) |-> InvalidVariant])

\* method.invoke checks every argument against the declared parameter
\* type and calls the method only when all of them fit.
ArgumentsFit(method, args) ==
    \A i \in 1..Len(method.params) :
        args[i].valid /\ args[i].type = method.params[i].type

\* variant::to_string(): the text of the value; a void variant has none.
VariantToString(result) ==
    CASE result.type = "int" -> IntText(result.v)
      [] result.type = "bool" -> (IF result.v THEN <<"true">> ELSE <<"false">>)
      [] result.type = "string" -> result.v
      [] OTHER -> <<>>

\* Lines 148 to 159: the response for what invoke returned.
SerializeResult(method, result) ==
    IF ~result.valid
    THEN IF method.ret = "void" THEN VoidText ELSE InvocationFailedText
    ELSE ResultText(VariantToString(result))

\* OrderManager.h: what each hosted method can return.  A void method that
\* was called returns a valid variant of type void.
HostedResults(method) ==
    CASE method.name = "CreateOrder" -> {Variant("bool", TRUE)}
      [] method.name = "GetOrderCount" -> {Variant("int", n) : n \in 0..MaxCount}
      [] method.name = "CancelOrder" -> {Variant("void", <<>>)}
      [] method.name \in {"Six", "Seven"} -> {Variant("int", 0)}
      [] OTHER -> {}

\* ---------------------------------------------------------------- state
Threads == {"app", "cb"}
Free == "free"

VARIABLES
    _instances,    \* the registry's std::map, as its set of entries
    _mutex,        \* Free, or the thread that owns the registry mutex
    op,            \* per thread: the registry operation it is executing
    pc,            \* where DispatchCommand stands on the callback thread
    jsonCmd,       \* the command DispatchCommand was called with
    context,       \* DispatchCommand's local context
    methodName,    \* DispatchCommand's local methodName
    instance,      \* DispatchCommand's local instance
    method,        \* DispatchCommand's local method
    argsVariants,  \* DispatchCommand's local argsVariants
    response,      \* the text DispatchCommand returns
    lookups,       \* history: the identifiers this dispatch passed to Get
    invoked,       \* history: the hosted calls this dispatch made
    lastWrite,     \* history: per identifier, what the last Register or
                   \* Unregister that took effect stored
    g_Connected,         \* rail.cpp: the connected flag
    g_hBridgeDll,        \* rail.cpp: the handle of RailBridge.dll, or null
    g_fnIgnite,          \* rail.cpp: the Rail_Ignite export, or null
    g_fnDisconnect,      \* rail.cpp: the Rail_Disconnect export, or null
    g_CustomDispatcher,  \* rail.cpp: the installed custom dispatcher, or none
    g_LastResult,        \* rail.cpp: the buffer BridgeCallback returns
    catalog,       \* rttr::type::get_types(), in the order it is traversed
    coercion,      \* a call of JsonToVariant: its arguments and what came of it
    init,          \* the integration that is starting up, and its next step
    ipc,           \* per bridge thread: its call of BridgeCallback
    g_agent,       \* rail_doom.cpp: the override counters and values
    doom,          \* the game thread in Rail_OverrideInput, the bridge thread in
                   \* a Doom command, and the history of both
    bridge,        \* history: what the bridge library was handed and asked
    life,          \* history: the last Ignite or Disconnect to complete
    cb             \* BridgeCallback's position and locals

regVars == <<_instances, _mutex, op, lastWrite>>
frameVars == <<jsonCmd, context, methodName, instance, method, argsVariants,
               response, lookups, invoked>>
lifeVars == <<g_Connected, g_hBridgeDll, g_fnIgnite, g_fnDisconnect, bridge, life>>
cbVars == <<g_CustomDispatcher, g_LastResult, cb>>
\* What the operations of the registry, the dispatcher and rail.cpp leave
\* as it is.
doomVars == <<g_agent, doom>>
fixedVars == <<catalog, coercion, ipc, doomVars>>
inputVars == <<fixedVars, init>>
railVars == <<lifeVars, cbVars, inputVars>>
vars == <<_instances, _mutex, op, lastWrite, pc, jsonCmd, context, methodName,
          instance, method, argsVariants, response, lookups, invoked,
          railVars>>

\* ------------------------------------------------------ registry contents
Entry(id, value) == [id |-> id, value |-> value]

\* _instances.find(id): the entries under that key.
MapFind(m, id) == {e \in m : e.id = id}

\* Mutant of MapAssign: insert(), which leaves an existing entry as it is.
MapAssignKeepFirst(m, id, value) ==
    IF MapFind(m, id) # {} THEN m ELSE m \cup {Entry(id, value)}

\* _instances[id] = instance: the entry under id, created when missing,
\* holds the new value.
MapAssign(m, id, value) == {e \in m : e.id # id} \cup {Entry(id, value)}

\* Mutant of MapErase: clear(), which drops every entry.
MapEraseAll(m, id) == {}

\* _instances.erase(id)
MapErase(m, id) == {e \in m : e.id # id}

\* Mutant of MapGet: the first entry of the map stands in for a missing key.
MapGetAnyEntry(m, id) ==
    IF MapFind(m, id) # {} THEN (CHOOSE e \in MapFind(m, id) : TRUE).value
    ELSE IF m # {} THEN (CHOOSE e \in m : TRUE).value
    ELSE InvalidVariant

\* it != end() ? it->second : rttr::variant()
MapGet(m, id) ==
    IF MapFind(m, id) # {} THEN (CHOOSE e \in MapFind(m, id) : TRUE).value
    ELSE InvalidVariant

\* ----------------------------------------------------- registry operations
NoOp == [name |-> "none", phase |-> "none"]

\* What the history keeps per identifier.
NotRegistered == [registered |-> FALSE]
Registered(value) == [registered |-> TRUE, value |-> value]
NoRet == [valid |-> FALSE, none |-> TRUE]

\* A call of InstanceRegistry::<name>(id, value) about to construct its
\* lock_guard.
Call(name, id, value) ==
    [name |-> name, phase |-> "lock", id |-> id, value |-> value, ret |-> NoRet]

Inside(t) == op[t].phase \in {"body", "unlock"}

\* Mutant of MutexAvailable: the guard does not wait for the mutex.
MutexAvailableAlways(t) == TRUE

\* Mutant of MutexAfterUnlock: the operation returns with the mutex held.
MutexAfterUnlockKept(t) == t

\* std::lock_guard<std::mutex> lock(_mutex): returns once the mutex is free.
MutexAvailable(t) == _mutex = Free

\* The lock_guard's destructor at the end of the operation.
MutexAfterUnlock(t) == Free

Lock(t) ==
    /\ op[t].phase = "lock"
    /\ MutexAvailable(t)
    /\ _mutex' = t
    /\ op' = [op EXCEPT ![t].phase = "body"]
    /\ UNCHANGED <<_instances, lastWrite, pc>>
    /\ UNCHANGED frameVars
    /\ UNCHANGED railVars

\* instance_registry.cpp line 11.  ret keeps what operator[] found under
\* the key before the assignment.
RegisterBody(t) ==
    /\ op[t].name = "Register" /\ op[t].phase = "body"
    /\ _instances' = MapAssign(_instances, op[t].id, op[t].value)
    /\ lastWrite' = [lastWrite EXCEPT ![op[t].id] = Registered(op[t].value)]
    /\ op' = [op EXCEPT ![t].phase = "unlock", ![t].ret = MapGet(_instances, op[t].id)]
    /\ UNCHANGED <<_mutex, pc>>
    /\ UNCHANGED frameVars
    /\ UNCHANGED railVars

\* instance_registry.cpp lines 16 to 20
GetBody(t) ==
    /\ op[t].name = "Get" /\ op[t].phase = "body"
    /\ op' = [op EXCEPT ![t].phase = "unlock", ![t].ret = MapGet(_instances, op[t].id)]
    /\ UNCHANGED <<_instances, _mutex, lastWrite, pc>>
    /\ UNCHANGED frameVars
    /\ UNCHANGED railVars

\* instance_registry.cpp line 25.  ret keeps whether erase() found an entry
\* to remove (its return value, which Unregister drops).
UnregisterBody(t) ==
    /\ op[t].name = "Unregister" /\ op[t].phase = "body"
    /\ _instances' = MapErase(_instances, op[t].id)
    /\ lastWrite' = [lastWrite EXCEPT ![op[t].id] = NotRegistered]
    /\ op' = [op EXCEPT ![t].phase = "unlock",
                        ![t].ret = [valid |-> MapFind(_instances, op[t].id) # {}]]
    /\ UNCHANGED <<_mutex, pc>>
    /\ UNCHANGED frameVars
    /\ UNCHANGED railVars

\* instance_registry.cpp line 30
ContainsBody(t) ==
    /\ op[t].name = "Contains" /\ op[t].phase = "body"
    /\ op' = [op EXCEPT ![t].phase = "unlock",
                        ![t].ret = [valid |-> MapFind(_instances, op[t].id) # {}]]
    /\ UNCHANGED <<_instances, _mutex, lastWrite, pc>>
    /\ UNCHANGED frameVars
    /\ UNCHANGED railVars

\* The operation returns to a caller that is not DispatchCommand.
Return(t) ==
    /\ op[t].phase = "unlock"
    /\ ~(t = "cb" /\ pc = "find")
    /\ _mutex' = MutexAfterUnlock(t)
    /\ op' = [op EXCEPT ![t] = NoOp]
    /\ UNCHANGED <<_instances, lastWrite, pc>>
    /\ UNCHANGED frameVars
    /\ UNCHANGED railVars

\* ------------------------------------------------------------ the inputs
\* The identifiers the application registers instances under.
Ids == {<<"OrderManager">>, <<"GetOrderCount">>}

\* The registry calls a thread can make.
RegistryCalls ==
    {Call("Register", id, v) : id \in Ids, v \in Instances}
    \cup {Call(name, id, InvalidVariant) : name \in {"Get", "Unregister", "Contains"}, id \in Ids}

\* A key that the command does not have.
Absent == [t |-> "absent"]

\* The command document with those of the four keys that are not Absent.
ObjectCmd(m, c, x, a) ==
    LET all == [method |-> m, class |-> c, context |-> x, args |-> a]
        present == {k \in DOMAIN all : all[k].t # "absent"}
    IN  Parsable(JObj([k \in present |-> all[k]]))

NameAlphabet == {"OrderManager", "GetOrderCount", DOT}
MethodStrings == StringsOver(NameAlphabet, MaxStrLen)

\* A context that closes the error message's string and adds a key.
Injection == <<"Ghost", Q, ",", Q, "result", Q, ":", Q, "Ghost">>
HostileNames == {<<"Ghost", Q>>, <<"Ghost", BS>>, <<"Ghost", NL>>, Injection}

FieldValues ==
    {Absent, JNull, JInt(5), JStr(<<"OrderManager">>), JStr(<<"GetOrderCount">>),
     JStr(<<"Ghost">>)}

\* Every method field against every class and context field.
PrecedenceCommands ==
    {ObjectCmd(m, c, x, Absent) :
        m \in {Absent, JInt(5)} \cup {JStr(s) : s \in MethodStrings},
        c \in FieldValues, x \in FieldValues}

\* Names with a quote, a backslash or a control character, in each place
\* a name can stand; texts json::parse rejects; documents that are no object.
HostileCommands ==
    UNION {{ObjectCmd(JStr(h \o <<DOT, "GetOrderCount">>), Absent, Absent, Absent),
            ObjectCmd(JStr(h), Absent, Absent, Absent),
            ObjectCmd(JStr(<<"GetOrderCount">>), JStr(h), Absent, Absent),
            ObjectCmd(JStr(<<"GetOrderCount">>), Absent, JStr(h), Absent),
            ObjectCmd(JStr(<<"OrderManager", DOT>> \o h), Absent, Absent, Absent)}
           : h \in HostileNames}
    \cup {Unparsable(<<"x">>), Unparsable(<<Q, "x">>)}
    \cup {Parsable(JArr(<<>>)), Parsable(JInt(5)), Parsable(JStr(<<"method">>)), Parsable(JNull)}

\* Commands without a method key, with every other key.
NoMethodCommands ==
    {ObjectCmd(Absent, c, x, a) :
        c \in FieldValues, x \in FieldValues,
        a \in {JArr(<<>>), JArr(<<JStr(<<"x">>), JInt(5)>>), JObj([k \in {"quantity"} |-> JInt(5)])}}

\* The values an argument can have.
ArgValues ==
    {JInt(5), JStr(<<"7">>), JStr(<<"x">>), JBool(TRUE), JNull, JFloat(2, <<"5">>)}

RECURSIVE SeqsUpTo(_, _)
SeqsUpTo(S, n) ==
    IF n = 0 THEN {<<>>}
    ELSE LET R == SeqsUpTo(S, n - 1)
         IN  R \cup {Append(r, x) : r \in R, x \in S}

NamedKeySets == (SUBSET {"clientName", "quantity"}) \cup {{"orderId"}}

ArgsValues ==
    {Absent, JInt(5), JStr(<<"x">>)}
    \cup {JArr(a) : a \in SeqsUpTo(ArgValues, MaxArgs)}
    \cup UNION {{JObj(f) : f \in [K -> ArgValues]} : K \in NamedKeySets}

\* Every catalog method of a registered context against every args value.
ArgsCommands ==
    {ObjectCmd(JStr(<<m.name>>), Absent, JStr(<<"OrderManager">>), a) :
        m \in OrderManagerMethods, a \in ArgsValues}

\* The methods of six and seven parameters against args of every form.
Fives(n) == [i \in 1..n |-> JInt(5)]
WideArgs ==
    {Absent, JNull, JArr(<<>>), JArr(<<JStr(<<"x">>)>>), JArr(<<JBool(TRUE)>>),
     JArr(Fives(6)), JArr(Fives(7)), JArr(Fives(6) \o <<JStr(<<"x">>)>>),
     JObj([k \in {"p1"} |-> JInt(5)]), JObj([k \in {"p7"} |-> JStr(<<"x">>)]),
     JObj([k \in {PNames[i] : i \in 1..7} |-> JInt(5)])}
WideCommands ==
    {ObjectCmd(JStr(<<m.name>>), JStr(<<"OrderManager">>), Absent, a) :
        m \in WideMethods, a \in WideArgs}

\* Method names that differ from a registered one in case only, or that no
\* type has.
CaseNames == {<<"getordercount">>, <<"GETORDERCOUNT">>, <<"Ghost">>}
CaseCommands ==
    {ObjectCmd(JStr(n), Absent, JStr(<<"OrderManager">>), Absent) : n \in CaseNames}
    \cup {ObjectCmd(JStr(<<"OrderManager", DOT>> \o n), Absent, Absent, JArr(<<>>)) :
             n \in CaseNames}

\* Commands that are wrong in more than one way.
MultiFaultCommands ==
    {ObjectCmd(JStr(<<"Ghost">>), c, Absent, JArr(Fives(7))) :
        c \in {JStr(<<"OrderManager">>), JStr(<<"Ghost">>), JInt(5)}}
    \cup {ObjectCmd(JBool(TRUE), JInt(5), JNull, JArr(Fives(7))),
          ObjectCmd(JBool(TRUE), Absent, Absent, Absent),
          ObjectCmd(JStr(<<"Seven">>), Absent, JStr(<<"OrderManager">>),
                    JObj([k \in {"p1", "p2"} |-> JStr(<<"x">>)])),
          ObjectCmd(JStr(<<"Ghost", DOT, "Ghost">>), Absent, Absent, JStr(<<"x">>))}

\* Method fields with two dots, with and without an explicit context.
TwoDots == <<"Ghost", DOT, "OrderManager", DOT, "GetOrderCount">>
DottedCommands ==
    {ObjectCmd(JStr(TwoDots), c, x, Absent) :
        c \in {Absent, JStr(<<"GetOrderCount">>)}, x \in {Absent, JStr(<<"OrderManager">>)}}

SeqCommands ==
    PrecedenceCommands \cup HostileCommands \cup NoMethodCommands \cup ArgsCommands
    \cup WideCommands \cup CaseCommands \cup MultiFaultCommands \cup DottedCommands

\* The commands of the concurrent system.
ConcCommands ==
    {ObjectCmd(JStr(<<"OrderManager", DOT, "GetOrderCount">>), Absent, Absent, Absent),
     ObjectCmd(JStr(<<"CreateOrder">>), Absent, JStr(<<"OrderManager">>),
               JArr(<<JStr(<<"x">>), JInt(5)>>)),
     ObjectCmd(JStr(<<"CancelOrder">>), JStr(<<"GetOrderCount">>), Absent,
               JObj([k \in {"orderId"} |-> JInt(5)])),
     ObjectCmd(Absent, Absent, Absent, JArr(<<>>))}

\* ------------------------------------------------------- DispatchCommand
NoResponse == <<>>
NoContext == <<>>

\* The value of the command's method field.
MethodNameFull == JAt(jsonCmd.doc, "method").v

\* Mutant of LookupCall: the dispatcher stores an instance under the context.
LookupCallRegister(ctx) == Call("Register", ctx, InstB)

\* Line 69: internal::InstanceRegistry::Get(context).
LookupCall(ctx) == Call("Get", ctx, InvalidVariant)

\* Lines 39 to 69: up to the call of InstanceRegistry::Get(context).
DispatchBegin(c) ==
    /\ pc = "idle"
    /\ op["cb"].name = "none"
    /\ jsonCmd' = c
    /\ LET r == ParseAndResolve(c)
       IN  IF r.kind = "resolved"
           THEN /\ pc' = "find"
                /\ context' = r.context
                /\ methodName' = r.methodName
                /\ op' = [op EXCEPT !["cb"] = LookupCall(r.context)]
                /\ lookups' = Append(lookups, r.context)
                /\ UNCHANGED response
           ELSE /\ pc' = "done"
                /\ response' = (IF r.kind = "return" THEN r.text ELSE CatchText(r))
                /\ UNCHANGED <<context, methodName, op, lookups>>
    /\ UNCHANGED <<_instances, _mutex, lastWrite, instance, method, argsVariants, invoked>>

\* Get returns to DispatchCommand: lines 69 to 72.
DispatchFind ==
    /\ pc = "find"
    /\ op["cb"].phase = "unlock"
    /\ _mutex' = MutexAfterUnlock("cb")
    /\ op' = [op EXCEPT !["cb"] = NoOp]
    /\ instance' = op["cb"].ret
    /\ IF ~op["cb"].ret.valid
       THEN /\ response' = InstanceNotFoundText(context)
            /\ pc' = "done"
       ELSE /\ pc' = "resolve"
            /\ UNCHANGED response
    /\ UNCHANGED <<_instances, lastWrite, jsonCmd, context, methodName, method,
                   argsVariants, lookups, invoked>>
    /\ UNCHANGED railVars

\* Mutant of InvokeTarget: the object is taken from the registry again.
InvokeTargetFromRegistry(inst) ==
    IF MapFind(_instances, context) # {} THEN MapGet(_instances, context).obj ELSE "none"

\* method.invoke(instance, ...), lines 137 to 143: the object the local
\* variant refers to.
InvokeTarget(inst) == inst.obj

\* Lines 74 to 146: the method is resolved, the arguments are built and
\* method.invoke is called; the hosted method is entered when they fit.
\* The history keeps what the registry holds for the context at the call.
DispatchInvoke ==
    /\ pc = "resolve"
    /\ LET name == StripPrefix(methodName, MethodNameFull)
           class == UnwrappedClass(instance)
           m == GetMethod(class, name)
           built == BuildArguments(m, jsonCmd.doc)
       IN  /\ methodName' = name
           /\ method' = m
           /\ IF m = InvalidMethod
              THEN /\ response' = MethodNotFoundText(name, class)
                   /\ pc' = "done"
                   /\ UNCHANGED <<argsVariants, invoked>>
              ELSE IF built.thrown
              THEN /\ response' = DispatchExceptionText(built.what)
                   /\ pc' = "done"
                   /\ UNCHANGED <<argsVariants, invoked>>
              ELSE /\ argsVariants' = built.v
                   /\ IF Len(built.v) > 6
                      THEN /\ response' = TooManyText
                           /\ pc' = "done"
                           /\ UNCHANGED invoked
                      ELSE IF ArgumentsFit(m, built.v)
                      THEN /\ pc' = "invoking"
                           /\ invoked' = Append(invoked, [obj |-> InvokeTarget(instance),
                                                          method |-> m.name,
                                                          args |-> built.v,
                                                          atCall |-> MapGet(_instances, context)])
                           /\ UNCHANGED response
                      ELSE /\ response' = SerializeResult(m, InvalidVariant)
                           /\ pc' = "done"
                           /\ UNCHANGED invoked
    /\ UNCHANGED <<_instances, _mutex, op, lastWrite, jsonCmd, context, instance, lookups>>
    /\ UNCHANGED railVars

\* The hosted method returns: lines 148 to 159.
HostedReturn ==
    /\ pc = "invoking"
    /\ op["cb"].name = "none"
    /\ \E result \in HostedResults(method) :
          response' = SerializeResult(method, result)
    /\ pc' = "done"
    /\ UNCHANGED <<_instances, _mutex, op, lastWrite, jsonCmd, context, methodName,
                   instance, method, argsVariants, lookups, invoked>>
    /\ UNCHANGED railVars

\* The caller has the response; the locals are gone.
DispatchReturn ==
    /\ pc = "done"
    /\ pc' = "idle"
    /\ jsonCmd' = Unparsable(<<>>)
    /\ context' = NoContext
    /\ methodName' = NoContext
    /\ instance' = InvalidVariant
    /\ method' = InvalidMethod
    /\ argsVariants' = <<>>
    /\ response' = NoResponse
    /\ lookups' = <<>>
    /\ invoked' = <<>>
    /\ UNCHANGED <<_instances, _mutex, op, lastWrite>>

\* ------------------------------------------------- callers of the registry
\* The application thread calls a registry operation.
AppCall(call) ==
    /\ op["app"].name = "none"
    /\ op' = [op EXCEPT !["app"] = call]
    /\ UNCHANGED <<_instances, _mutex, lastWrite, pc>>
    /\ UNCHANGED frameVars
    /\ UNCHANGED railVars

\* A hosted method, running inside method.invoke on the callback thread,
\* calls a registry operation.
HostedCall(call) ==
    /\ pc = "invoking"
    /\ op["cb"].name = "none"
    /\ op' = [op EXCEPT !["cb"] = call]
    /\ UNCHANGED <<_instances, _mutex, lastWrite, pc>>
    /\ UNCHANGED frameVars
    /\ UNCHANGED railVars

\* ------------------------------------------------- manifest_generator.cpp
\* The four hex digits EscapeJson writes for a control character.
HexCode(c) == CASE c = NL -> <<"0", "0", "0", "a">> [] OTHER -> <<"0", "0", "0", "0">>

\* Mutant of EscapeJsonChar: the character is written as it is.
EscapeJsonCharRaw(c) == <<c>>

\* EscapeJson, lines 13 to 17, for one character.
EscapeJsonChar(c) ==
    IF c = Q THEN <<BS, Q>>
    ELSE IF c = BS THEN <<BS, BS>>
    ELSE IF IsControl(c) THEN <<BS, "u">> \o HexCode(c)
    ELSE <<c>>

RECURSIVE EscapeJson(_)
EscapeJson(s) ==
    IF s = <<>> THEN <<>> ELSE EscapeJsonChar(Head(s)) \o EscapeJson(Tail(s))

\* rttr's name of a parameter type.
TypeName(type) == IF type = "string" THEN "std::string" ELSE type

\* Lines 59 to 62: one parameter.
ParamJson(p) ==
    <<"{", Q, "name", Q, ":", SP, Q>> \o EscapeJson(<<p.name>>)
    \o <<Q, ",", Q, "type", Q, ":", SP, Q>> \o EscapeJson(<<TypeName(p.type)>>)
    \o <<Q, "}">>

\* Lines 55 to 63: the parameters, a comma before each but the first.
RECURSIVE ParamsJson(_, _)
ParamsJson(params, firstParam) ==
    IF params = <<>> THEN <<>>
    ELSE (IF firstParam THEN <<>> ELSE <<",">>) \o ParamJson(Head(params))
         \o ParamsJson(Tail(params), FALSE)

\* Lines 42 to 65: one method of class className.
MethodJson(className, meth) ==
    <<"{", Q, "name", Q, ":", SP, Q>> \o EscapeJson(<<className, DOT, meth.name>>)
    \o <<Q, ",", Q, "description", Q, ":", SP, Q>> \o EscapeJson(meth.desc)
    \o <<Q, ",", Q, "parameters", Q, ":", SP, "[">> \o ParamsJson(meth.params, TRUE)
    \o <<"]", "}">>

\* Mutant of GetMethods: the traversal stops after a type's first method.
GetMethodsFirstOnly(t) == IF t.methods = <<>> THEN <<>> ELSE <<Head(t.methods)>>

\* t.get_methods(), line 38.
GetMethods(t) == t.methods

\* Lines 38 to 66: the methods of one type, a comma before each entry but
\* the manifest's first.
RECURSIVE MethodsJson(_, _, _)
MethodsJson(className, meths, firstFunc) ==
    IF meths = <<>> THEN <<>>
    ELSE (IF firstFunc THEN <<>> ELSE <<",">>) \o MethodJson(className, Head(meths))
         \o MethodsJson(className, Tail(meths), FALSE)

\* Lines 32 to 67: the types in traversal order; a type that is no class
\* is passed over.
RECURSIVE TypesJson(_, _)
TypesJson(types, firstFunc) ==
    IF types = <<>> THEN <<>>
    ELSE LET t == Head(types)
         IN  IF ~t.isClass THEN TypesJson(Tail(types), firstFunc)
             ELSE MethodsJson(t.name, GetMethods(t), firstFunc)
                  \o TypesJson(Tail(types), firstFunc /\ GetMethods(t) = <<>>)

\* GenerateManifest(appName), lines 22 to 72, over the types as
\* rttr::type::get_types() lists them.
GenerateManifest(appName, types) ==
    <<"{", Q, "language", Q, ":", SP, Q, "cpp", Q, ",">>
    \o <<Q, "appName", Q, ":", SP, Q>> \o EscapeJson(appName) \o <<Q, ",">>
    \o <<Q, "functions", Q, ":", SP, "[">> \o TypesJson(types, TRUE) \o <<"]", "}">>

\* The ways to list the members of a set one after the other.
Orderings(S) ==
    {f \in [1..Cardinality(S) -> S] : \A i, j \in 1..Cardinality(S) : f[i] = f[j] => i = j}

\* The registered types: the two classes with their methods, and int, which
\* is no class.
TypeRecord(name, isClass, methods) == [name |-> name, isClass |-> isClass, methods |-> methods]
RegisteredTypes(omOrder, wideOrder) ==
    {TypeRecord("OrderManager", TRUE, omOrder), TypeRecord("Wide", TRUE, wideOrder),
     TypeRecord("int", FALSE, <<>>)}

\* Every order get_types() and get_methods() can list them in.
CatalogOrders ==
    UNION {Orderings(RegisteredTypes(o, w)) :
             o \in Orderings(OrderManagerMethods), w \in Orderings(WideMethods)}

\* One of them.
RegistrationOrder == CHOOSE c \in CatalogOrders : TRUE

\* ----------------------------------------------------------------- rail.cpp
coreVars == <<regVars, pc, frameVars>>

NullPtr == "null"
NoManifest == <<"none">>
NoDispatcher == "none"

\* What the bridge library has seen: the manifest of the last Rail_Ignite
\* call, whether it holds the callback of a connection, how many
\* Rail_Ignite calls returned 0 and how many Rail_Disconnect calls it got.
NoBridge ==
    [manifest |-> NoManifest, callback |-> FALSE, ignites |-> 0, disconnects |-> 0]

\* The last Ignite or Disconnect to complete, what it returned, and how
\* many of them there were.
NoLife == [call |-> "none", ret |-> FALSE, calls |-> 0]
Completed(call, ret) == [call |-> call, ret |-> ret, calls |-> life.calls + 1]

\* BridgeCallback between two commands, and who answered the last one.
NoCommand == [parse |-> "none"]
IdleCallback ==
    [pc |-> "idle", cmd |-> NoCommand, atEntry |-> NoDispatcher, changed |-> FALSE,
     by |-> "none"]

\* An exception has left BridgeCallback: the process is over.
Alive == cb.pc # "terminated"

\* Ignite(appName, version, customManifest), lines 66 to 125.  loaded:
\* LoadLibraryA succeeds; hasIgnite and hasDisconnect: GetProcAddress finds
\* the export; result: what Rail_Ignite returns.  The copy of the manifest
\* written to Rail.manifest.json is not read again and is left out.
Ignite(appName, customManifest, loaded, hasIgnite, hasDisconnect, result) ==
    LET jsonManifest == IF customManifest # <<>> THEN customManifest
                        ELSE GenerateManifest(appName, catalog)
        called == loaded /\ hasIgnite /\ hasDisconnect
        connected == called /\ result = 0
    IN  /\ Alive
        /\ life.calls < MaxLife
        /\ g_hBridgeDll' = IF loaded THEN "RailBridge.dll" ELSE NullPtr
        /\ g_fnIgnite' = IF ~loaded THEN g_fnIgnite
                         ELSE IF hasIgnite THEN "Rail_Ignite" ELSE NullPtr
        /\ g_fnDisconnect' = IF ~loaded THEN g_fnDisconnect
                             ELSE IF hasDisconnect THEN "Rail_Disconnect" ELSE NullPtr
        /\ bridge' = [manifest |-> IF called THEN jsonManifest ELSE bridge.manifest,
                      callback |-> bridge.callback \/ connected,
                      ignites |-> bridge.ignites + (IF connected THEN 1 ELSE 0),
                      disconnects |-> bridge.disconnects]
        /\ g_Connected' = (g_Connected \/ connected)
        /\ life' = Completed("Ignite", connected)
        /\ UNCHANGED <<coreVars, cbVars, fixedVars>>

\* Disconnect(), lines 132 to 142.
Disconnect ==
    LET calls == g_Connected /\ g_fnDisconnect # NullPtr
    IN  /\ Alive
        /\ life.calls < MaxLife
        /\ bridge' = [bridge EXCEPT
                        !.disconnects = IF calls THEN @ + 1 ELSE @,
                        !.callback = IF calls THEN FALSE ELSE @]
        /\ g_Connected' = FALSE
        /\ g_hBridgeDll' = NullPtr
        /\ life' = Completed("Disconnect", FALSE)
        /\ UNCHANGED <<g_fnIgnite, g_fnDisconnect, coreVars, cbVars, inputVars>>

\* IsConnected(), lines 144 to 146.
IsConnected == g_Connected

\* The dispatchers of the integrations: DoomDispatch of rail_doom.cpp,
\* ManualDispatch of the Notepad++ plugin.
CustomDispatchers == {"DoomDispatch", "ManualDispatch"}

\* What a custom dispatcher answers.
CustomResults(d) ==
    {<<"{", Q, "result", Q, ":", SP, Q, "success", Q, "}">>,
     <<"{", Q, "error", Q, ":", SP, Q, "unknown command", Q, "}">>}

\* SetCustomDispatcher(dispatcher), lines 33 to 35; an empty function
\* removes the dispatcher.
SetCustomDispatcher(dispatcher) ==
    /\ Alive
    /\ g_CustomDispatcher # dispatcher
    /\ g_CustomDispatcher' = dispatcher
    /\ cb' = IF cb.pc = "idle" THEN cb ELSE [cb EXCEPT !.changed = TRUE]
    /\ UNCHANGED <<g_LastResult, lifeVars, fixedVars, coreVars>>

\* A null commandJson.
NullCommand == [parse |-> "null"]
NullCommandText == <<"{", Q, "error", Q, ":", Q, "null_command", Q, "}">>

\* Mutant of UseCustom: the test of line 46 always fails.
UseCustomNever(dispatcher) == FALSE

\* if (g_CustomDispatcher), line 46.
UseCustom(dispatcher) == dispatcher # NoDispatcher

\* The bridge calls BridgeCallback(commandJson): lines 40 to 49, up to the
\* call of the dispatcher the test of line 46 selects.
BridgeCallback(commandJson) ==
    /\ Alive
    /\ bridge.callback
    /\ cb.pc = "idle"
    /\ LET entered == [IdleCallback EXCEPT !.cmd = commandJson,
                                           !.atEntry = g_CustomDispatcher]
       IN  IF commandJson = NullCommand
           THEN /\ cb' = [entered EXCEPT !.by = "BridgeCallback", !.cmd = NoCommand]
                /\ UNCHANGED coreVars
           ELSE IF UseCustom(g_CustomDispatcher)
           THEN /\ cb' = [entered EXCEPT !.pc = "call"]
                /\ UNCHANGED coreVars
           ELSE /\ cb' = [entered EXCEPT !.pc = "builtin", !.by = "DispatchCommand"]
                /\ DispatchBegin(commandJson)
    /\ UNCHANGED <<g_CustomDispatcher, g_LastResult, lifeVars, inputVars>>

\* Line 47: g_CustomDispatcher(commandJson) reads the function again; an
\* empty one throws std::bad_function_call, which nothing catches.
CustomCall ==
    /\ cb.pc = "call"
    /\ cb' = IF g_CustomDispatcher = NoDispatcher
             THEN [cb EXCEPT !.pc = "terminated", !.by = "bad_function_call"]
             ELSE [cb EXCEPT !.pc = "custom", !.by = g_CustomDispatcher]
    /\ UNCHANGED <<g_CustomDispatcher, g_LastResult, lifeVars, inputVars, coreVars>>

\* The custom dispatcher returns: lines 47, 58 and 60.
CustomReturn ==
    /\ cb.pc = "custom"
    /\ \E text \in CustomResults(cb.by) :
          /\ g_LastResult' = text
          /\ cb' = [cb EXCEPT !.pc = "idle", !.cmd = NoCommand]
    /\ UNCHANGED <<g_CustomDispatcher, lifeVars, inputVars, coreVars>>

\* DispatchCommand returns to BridgeCallback: lines 49, 58 and 60.
BuiltinReturn ==
    /\ cb.pc = "builtin"
    /\ DispatchReturn
    /\ g_LastResult' = response
    /\ cb' = [cb EXCEPT !.pc = "idle", !.cmd = NoCommand]
    /\ UNCHANGED <<g_CustomDispatcher, lifeVars, inputVars>>

\* The application registers the example's instance
\* (RegisterInstanceInternal, lines 127 to 130), removes it or asks for it,
\* here between the callbacks.
RailCalls ==
    {Call("Register", <<"OrderManager">>, InstA),
     Call("Unregister", <<"OrderManager">>, InvalidVariant),
     Call("Contains", <<"OrderManager">>, InvalidVariant)}
RegisterInstanceInternal ==
    /\ Alive
    /\ pc = "idle" /\ cb.pc = "idle"
    /\ \E call \in RailCalls : AppCall(call)

\* DebugDispatch(json), lines 154 to 156: DispatchCommand called directly.
DebugDispatch(json) == DispatchBegin(json) /\ UNCHANGED railVars
DebugDispatchReturn == cb.pc = "idle" /\ DispatchReturn /\ UNCHANGED railVars

\* ------------------------------------ BridgeCallback on several threads
\* The threads the bridge delivers commands on.
BridgeThreads == {"ipc1", "ipc2"}

\* What a reader finds in a buffer that is written while it is read, or
\* that two threads write at once.
Indeterminate == <<"indeterminate">>

\* A bridge thread outside BridgeCallback.
IdleCall ==
    [pc |-> "idle", cmd |-> NoCommand, result |-> NoResponse, raced |-> FALSE,
     read |-> NoResponse]

\* DispatchCommand(commandJson) while no instance is registered: lines 41 to
\* 72 with Get returning the invalid variant, and the catch clauses.
DispatchUnregistered(commandJson) ==
    LET r == ParseAndResolve(commandJson)
    IN  IF r.kind = "resolved" THEN InstanceNotFoundText(r.context)
        ELSE IF r.kind = "return" THEN r.text
        ELSE CatchText(r)

\* The other threads that are assigning to the buffer.
Storing(t) == {u \in BridgeThreads \ {t} : ipc[u].pc = "storing"}

\* Every thread that is copying the buffer, or assigning to it, while
\* thread t assigns to it.
Racing(t) ==
    Storing(t)
    \cup {u \in BridgeThreads \ {t} : ipc[u].pc = "reading" /\ ipc[u].cmd # NullCommand}

\* Lines 40 to 50 on thread t: the null check and the dispatcher's answer
\* in the local result.
CallbackEnter(t, commandJson) ==
    /\ Alive /\ bridge.callback
    /\ _instances = {}
    /\ ipc[t].pc = "idle"
    /\ ipc' = [ipc EXCEPT ![t] =
                 IF commandJson = NullCommand
                 THEN [IdleCall EXCEPT !.pc = "returned", !.cmd = commandJson,
                                       !.result = NullCommandText]
                 ELSE [IdleCall EXCEPT !.pc = "dispatched", !.cmd = commandJson,
                                       !.result = DispatchUnregistered(commandJson)]]
    /\ ~UseCustom(g_CustomDispatcher)
    /\ UNCHANGED <<coreVars, lifeVars, cbVars, catalog, coercion, init, doomVars>>

\* Line 58 on thread t, g_LastResult = result, from its start ...
StoreBegin(t) ==
    /\ ipc[t].pc = "dispatched"
    /\ ipc' = [u \in BridgeThreads |->
                 IF u = t THEN [ipc[t] EXCEPT !.pc = "storing", !.raced = Racing(t) # {}]
                 ELSE IF u \in Racing(t) THEN [ipc[u] EXCEPT !.raced = TRUE]
                 ELSE ipc[u]]
    /\ UNCHANGED <<coreVars, lifeVars, cbVars, catalog, coercion, init, doomVars>>

\* ... to its end, and the return of line 60.  An assignment that ran
\* beside another one leaves the result of either, or neither.
StoreEnd(t) ==
    /\ ipc[t].pc = "storing"
    /\ g_LastResult' \in (IF ipc[t].raced
                          THEN {ipc[t].result, g_LastResult, Indeterminate}
                          ELSE {ipc[t].result})
    /\ ipc' = [ipc EXCEPT ![t].pc = "returned", ![t].raced = FALSE]
    /\ UNCHANGED <<coreVars, lifeVars, g_CustomDispatcher, cb, catalog, coercion, init, doomVars>>

\* The bridge starts to copy the text behind the pointer it was handed:
\* the literal of line 41, or the buffer.
ReadBegin(t) ==
    /\ ipc[t].pc = "returned"
    /\ ipc' = [ipc EXCEPT ![t].pc = "reading",
                          ![t].raced = ipc[t].cmd # NullCommand /\ Storing(t) # {}]
    /\ UNCHANGED <<coreVars, lifeVars, cbVars, catalog, coercion, init, doomVars>>

\* The bridge has its copy.  A buffer that was assigned to during the copy
\* gives the old text, the new one, or neither.
ReadEnd(t) ==
    /\ ipc[t].pc = "reading"
    /\ \E text \in (IF ipc[t].cmd = NullCommand THEN {NullCommandText}
                     ELSE IF ipc[t].raced THEN {ipc[t].result, g_LastResult, Indeterminate}
                     ELSE {g_LastResult}) :
          ipc' = [ipc EXCEPT ![t].pc = "read", ![t].read = text]
    /\ UNCHANGED <<coreVars, lifeVars, cbVars, catalog, coercion, init, doomVars>>

\* The bridge thread is ready for its next command.
CallbackLeave(t) ==
    /\ ipc[t].pc = "read"
    /\ ipc' = [ipc EXCEPT ![t] = IdleCall]
    /\ UNCHANGED <<coreVars, lifeVars, cbVars, catalog, coercion, init, doomVars>>

\* ------------------------------------------------------------ rail_doom.cpp
\* static AgentState g_agent = {0}, line 38.
NoOverride ==
    [move_tics |-> 0, forward_move |-> 0, side_move |-> 0, turn_tics |-> 0,
     angle_turn |-> 0, fire_tics |-> 0, use_tics |-> 0]

\* The four overrides of Rail_OverrideInput in the order it goes through
\* them, and the counter of each.
Sections == <<"move", "turn", "fire", "use">>
SectionNames == {Sections[k] : k \in 1..Len(Sections)}
Counter(s) ==
    CASE s = "move" -> "move_tics" [] s = "turn" -> "turn_tics"
      [] s = "fire" -> "fire_tics" [] s = "use" -> "use_tics"

\* The tick command as G_BuildTiccmd hands it to the hook: the player is
\* walking and presses no button.
BaseCmd == [forwardmove |-> 25, sidemove |-> 24, angleturn |-> 640, buttons |-> {}]

\* The game thread outside Rail_OverrideInput and the bridge thread outside
\* DoomDispatch.  set and applied, per override: the count its last command
\* stored, and the ticks that have applied it since; commands: the commands
\* received.
IdleDoom ==
    [game |-> [pc |-> "idle", sec |-> 1, cmd |-> BaseCmd, tested |-> 0, ran |-> {}],
     call |-> [pc |-> "idle", direction |-> "", degrees |-> 0],
     set |-> [s \in SectionNames |-> 0],
     applied |-> [s \in SectionNames |-> 0],
     commands |-> 0]

\* Integer division of C, which rounds towards zero.
CDiv(a, b) == IF a >= 0 THEN a \div b ELSE -((-a) \div b)

\* MsToTics, lines 41 to 44: (int)((double)ms / 1000.0 * 35.0).
MsToTics(ms) == IF ms <= 0 THEN 0 ELSE CDiv(ms * 35, 1000)

\* G_BuildTiccmd calls the hook with the command it has built.
TickBegin ==
    /\ doom.game.pc = "idle"
    /\ doom' = [doom EXCEPT !.game = [pc |-> "test", sec |-> 1, cmd |-> BaseCmd,
                                      tested |-> 0, ran |-> {}]]
    /\ UNCHANGED <<g_agent, coreVars, lifeVars, cbVars, catalog, coercion, init, ipc>>

\* After section k: the test of the next one, or the end of the hook.
AfterSection(game, k) ==
    IF k < Len(Sections) THEN [game EXCEPT !.pc = "test", !.sec = k + 1]
    ELSE [game EXCEPT !.pc = "built"]

\* Lines 51, 58, 64 and 70: if (g_agent.<counter> > 0).
OverrideTest(s) ==
    /\ doom.game.pc = "test"
    /\ Sections[doom.game.sec] = s
    /\ doom' = [doom EXCEPT !.game =
                  IF g_agent[Counter(s)] > 0
                  THEN [@ EXCEPT !.pc = "apply", !.tested = g_agent[Counter(s)]]
                  ELSE AfterSection(@, doom.game.sec)]
    /\ UNCHANGED <<g_agent, coreVars, lifeVars, cbVars, catalog, coercion, init, ipc>>

\* Lines 52 and 53, 59, 65, 71: what the override writes to the command.
Overridden(s, cmd) ==
    CASE s = "move" -> [cmd EXCEPT !.forwardmove = g_agent.forward_move,
                                   !.sidemove = g_agent.side_move]
      [] s = "turn" -> [cmd EXCEPT !.angleturn = g_agent.angle_turn]
      [] s = "fire" -> [cmd EXCEPT !.buttons = @ \cup {"BT_ATTACK"}]
      [] s = "use" -> [cmd EXCEPT !.buttons = @ \cup {"BT_USE"}]

\* Lines 52 to 54, 59 and 60, 65 and 66, 71 and 72: the body of one
\* override.  g_agent is a plain struct that the bridge thread writes with
\* no lock: the decrement takes one off the value it finds, or stores the
\* value read at the test less one when a write came in between.
OverrideApply(s) ==
    /\ doom.game.pc = "apply"
    /\ Sections[doom.game.sec] = s
    /\ \E left \in {g_agent[Counter(s)] - 1, doom.game.tested - 1} :
          g_agent' = [g_agent EXCEPT ![Counter(s)] = left]
    /\ doom' = [doom EXCEPT
                  !.game = AfterSection([@ EXCEPT !.cmd = Overridden(s, @),
                                                  !.ran = @ \cup {s}],
                                        doom.game.sec),
                  !.applied[s] = @ + 1]
    /\ UNCHANGED <<coreVars, lifeVars, cbVars, catalog, coercion, init, ipc>>

\* The hook returns and the game runs the tick with the command.
TickEnd ==
    /\ doom.game.pc = "built"
    /\ doom' = [doom EXCEPT !.game = IdleDoom.game]
    /\ UNCHANGED <<g_agent, coreVars, lifeVars, cbVars, catalog, coercion, init, ipc>>

\* A command of kind s that stores n in its counter has been received.
Received(s, n) ==
    [doom EXCEPT !.set[s] = n, !.applied[s] = 0, !.commands = @ + 1]

\* Doom_Move(direction, ms), lines 87 and 88, on the bridge thread.
Doom_MoveTics(direction, ms) ==
    /\ doom.call.pc = "idle"
    /\ doom.commands < MaxCommands
    /\ g_agent' = [g_agent EXCEPT !.move_tics = MsToTics(ms)]
    /\ doom' = [Received("move", MsToTics(ms)) EXCEPT
                  !.call = [pc |-> "move89", direction |-> direction, degrees |-> 0]]
    /\ UNCHANGED <<coreVars, lifeVars, cbVars, catalog, coercion, init, ipc>>

\* Lines 89 and 90.
Doom_MoveClear ==
    /\ doom.call.pc = "move89"
    /\ g_agent' = [g_agent EXCEPT !.forward_move = 0, !.side_move = 0]
    /\ doom' = [doom EXCEPT !.call.pc = "move95"]
    /\ UNCHANGED <<coreVars, lifeVars, cbVars, catalog, coercion, init, ipc>>

\* Lines 92 to 98, dir being the direction in lower case.
Doom_MoveDirection ==
    /\ doom.call.pc = "move95"
    /\ LET dir == doom.call.direction
       IN  g_agent' =
              IF dir = "forward" THEN [g_agent EXCEPT !.forward_move = 50]
              ELSE IF dir = "backward" THEN [g_agent EXCEPT !.forward_move = -50]
              ELSE IF dir = "left" THEN [g_agent EXCEPT !.side_move = -40]
              ELSE IF dir = "right" THEN [g_agent EXCEPT !.side_move = 40]
              ELSE g_agent
    /\ doom' = [doom EXCEPT !.call = IdleDoom.call]
    /\ UNCHANGED <<coreVars, lifeVars, cbVars, catalog, coercion, init, ipc>>

\* Doom_Rotate(degrees), lines 112 to 115: duration_tics is 10.
Doom_RotateTics(degrees) ==
    /\ doom.call.pc = "idle"
    /\ doom.commands < MaxCommands
    /\ g_agent' = [g_agent EXCEPT !.turn_tics = 10]
    /\ doom' = [Received("turn", 10) EXCEPT
                  !.call = [pc |-> "rotate116", direction |-> "", degrees |-> degrees]]
    /\ UNCHANGED <<coreVars, lifeVars, cbVars, catalog, coercion, init, ipc>>

\* Line 116: total_units / duration_tics.
Doom_RotateRate ==
    /\ doom.call.pc = "rotate116"
    /\ g_agent' = [g_agent EXCEPT
                     !.angle_turn = CDiv(CDiv(doom.call.degrees * 65536, 360), 10)]
    /\ doom' = [doom EXCEPT !.call = IdleDoom.call]
    /\ UNCHANGED <<coreVars, lifeVars, cbVars, catalog, coercion, init, ipc>>

\* Doom_Shoot(ms), lines 122 and 123.
Doom_Shoot(ms) ==
    /\ doom.call.pc = "idle"
    /\ doom.commands < MaxCommands
    /\ LET tics == MsToTics(IF ms <= 0 THEN 300 ELSE ms)
       IN  /\ g_agent' = [g_agent EXCEPT !.fire_tics = tics]
           /\ doom' = Received("fire", tics)
    /\ UNCHANGED <<coreVars, lifeVars, cbVars, catalog, coercion, init, ipc>>

\* Doom_Use(), line 128.
Doom_Use ==
    /\ doom.call.pc = "idle"
    /\ doom.commands < MaxCommands
    /\ g_agent' = [g_agent EXCEPT !.use_tics = 5]
    /\ doom' = Received("use", 5)
    /\ UNCHANGED <<coreVars, lifeVars, cbVars, catalog, coercion, init, ipc>>

\* What DoomDispatch passes on: one of its four directions and the number
\* after "ms" (lines 145 to 163), the number after "degrees" (lines 167 to
\* 176), and 300 for every shot (line 181).
MoveDirections == {"forward", "left", "backward"}
MoveMs == {0, 60, 100}
RotateDegrees == {90, -90}

\* DoomDispatch on the bridge thread while the game thread runs its ticks.
NextDoom ==
    \/ TickBegin
    \/ \E s \in SectionNames : OverrideTest(s) \/ OverrideApply(s)
    \/ TickEnd
    \/ \E direction \in MoveDirections, ms \in MoveMs : Doom_MoveTics(direction, ms)
    \/ Doom_MoveClear
    \/ Doom_MoveDirection
    \/ \E degrees \in RotateDegrees : Doom_RotateTics(degrees)
    \/ Doom_RotateRate
    \/ Doom_Shoot(300)
    \/ Doom_Use

\* ---------------------------------------------------------- specifications
InitCore ==
    /\ _instances = {}
    /\ _mutex = Free
    /\ op = [t \in Threads |-> NoOp]
    /\ lastWrite = [id \in Ids |-> NotRegistered]
    /\ pc = "idle"
    /\ jsonCmd = Unparsable(<<>>)
    /\ context = NoContext
    /\ methodName = NoContext
    /\ instance = InvalidVariant
    /\ method = InvalidMethod
    /\ argsVariants = <<>>
    /\ response = NoResponse
    /\ lookups = <<>>
    /\ invoked = <<>>
    /\ g_Connected = FALSE
    /\ g_hBridgeDll = NullPtr
    /\ g_fnIgnite = NullPtr
    /\ g_fnDisconnect = NullPtr
    /\ g_CustomDispatcher = NoDispatcher
    /\ g_LastResult = NoResponse
    /\ bridge = NoBridge
    /\ life = NoLife
    /\ cb = IdleCallback
    /\ ipc = [t \in BridgeThreads |-> IdleCall]
    /\ g_agent = NoOverride
    /\ doom = IdleDoom

\* No call of JsonToVariant under observation.
NoCoercion == [pc |-> "none"]

\* No integration under observation.
NoInit == [integration |-> "none", step |-> 0]

Init == InitCore /\ catalog = RegistrationOrder /\ coercion = NoCoercion /\ init = NoInit

RegistryStep(t) ==
    \/ Lock(t)
    \/ RegisterBody(t)
    \/ GetBody(t)
    \/ UnregisterBody(t)
    \/ ContainsBody(t)
    \/ Return(t)

\* A command arrives: DispatchCommand is called with one of cmds.
DispatchAny(cmds) == pc = "idle" /\ \E c \in cmds : DebugDispatch(c)

AppCallAny == op["app"].name = "none" /\ \E call \in RegistryCalls : AppCall(call)

HostedCallAny == pc = "invoking" /\ \E call \in RegistryCalls : HostedCall(call)

\* The application thread and the callback thread run side by side.
Next ==
    \/ \E t \in Threads : RegistryStep(t)
    \/ AppCallAny
    \/ HostedCallAny
    \/ DispatchAny(ConcCommands)
    \/ DispatchFind
    \/ DispatchInvoke
    \/ HostedReturn
    \/ DebugDispatchReturn

Spec == Init /\ [][Next]_vars

\* One thread at a time: the application calls the registry between
\* dispatches, and each dispatch runs to its end.
NextSeq ==
    \/ \E t \in Threads : RegistryStep(t)
    \/ pc = "idle" /\ AppCallAny
    \/ op["app"].name = "none" /\ DispatchAny(SeqCommands)
    \/ DispatchFind
    \/ DispatchInvoke
    \/ HostedReturn
    \/ DebugDispatchReturn

SpecSeq == Init /\ [][NextSeq]_vars

\* The inputs of Ignite.
AppNames == {<<"CppOrderSystem">>, <<"Cpp", Q, BS, NL>>}
CustomManifests == {<<>>, <<"{", Q, "appName", Q, ":", SP, Q, "Doom", Q, "}">>}

IgniteAny ==
    \E appName \in AppNames, customManifest \in CustomManifests,
       loaded, hasIgnite, hasDisconnect \in BOOLEAN, result \in {0, 1} :
        Ignite(appName, customManifest, loaded, hasIgnite, hasDisconnect, result)
        /\ UNCHANGED init

SetCustomDispatcherAny ==
    /\ \E d \in CustomDispatchers \cup {NoDispatcher} : SetCustomDispatcher(d)
    /\ UNCHANGED init

BridgeCallbackAny ==
    pc = "idle" /\ op["app"].name = "none" /\ \E c \in ConcCommands \cup {NullCommand} : BridgeCallback(c)

\* Ignite as an integration with its own manifest calls it.
IgniteCustom ==
    \E customManifest \in CustomManifests \ {<<>>}, loaded \in BOOLEAN, result \in {0, 1} :
        Ignite(<<"Doom">>, customManifest, loaded, TRUE, TRUE, result)
        /\ UNCHANGED init

\* The application connects, registers, installs dispatchers and
\* disconnects while the bridge delivers commands on its thread.
NextRail ==
    \/ IgniteCustom
    \/ Disconnect
    \/ SetCustomDispatcherAny
    \/ RegisterInstanceInternal
    \/ \E t \in Threads : RegistryStep(t)
    \/ BridgeCallbackAny
    \/ CustomCall
    \/ CustomReturn
    \/ DispatchFind
    \/ DispatchInvoke
    \/ HostedReturn
    \/ BuiltinReturn

SpecRail == Init /\ [][NextRail]_vars

\* The life cycle alone, over every order the catalog can be listed in.
InitLife == InitCore /\ catalog \in CatalogOrders /\ coercion = NoCoercion /\ init = NoInit

NextLife ==
    \/ IgniteAny
    \/ Disconnect

SpecLife == InitLife /\ [][NextLife]_vars

\* JsonToVariant on its own: every JSON value against every target type.
CoercionValues ==
    {JNull, JBool(TRUE), JBool(FALSE), JInt(0), JInt(5), JFloat(2, <<"5">>),
     JStr(<<"true">>), JStr(<<"True">>), JStr(<<"TRUE">>), JStr(<<"false">>),
     JStr(<<"1">>), JStr(<<>>), JStr(<<"x">>), JStr(<<"x", Q, BS, NL>>),
     JArr(<<>>), JArr(<<JBool(TRUE), JStr(<<"x">>)>>),
     JObj(<<>>), JObj([k \in {"a"} |-> JBool(TRUE)])}
TargetTypes == {"int", "float", "double", "bool", "string", "long", "OrderManager"}

\* argsVariants[i] = JsonToVariant(jVal, targetType), lines 114 and 125: the
\* slot takes what the call returns, or the call throws.
Coerce ==
    /\ coercion.pc = "call"
    /\ coercion' = [coercion EXCEPT
                        !.pc = "returned",
                        !.out = JsonToVariant(coercion.jVal, coercion.targetType)]
    /\ UNCHANGED <<coreVars, lifeVars, cbVars, catalog, init, ipc, doomVars>>

InitCoerce ==
    /\ InitCore /\ catalog = RegistrationOrder /\ init = NoInit
    /\ coercion \in {[pc |-> "call", jVal |-> j, targetType |-> type, out |-> Value(InvalidVariant)] :
                        j \in CoercionValues, type \in TargetTypes}

NextCoerce == Coerce

SpecCoerce == InitCoerce /\ [][NextCoerce]_vars

\* The integrations that install a dispatcher of their own: Rail_DoomInit
\* of rail_doom.cpp, setInfo of RailNPP/main.cpp and RailExtension::Initialize
\* of RailExtension.cpp, each with the calls it makes in their order.
Integrations == {"Rail_DoomInit", "setInfo", "RailExtension::Initialize"}

InitSteps(i) ==
    IF i = "RailExtension::Initialize" THEN <<"SetCustomDispatcher", "Ignite">>
    ELSE <<"Ignite", "SetCustomDispatcher">>

InitDispatcher(i) == IF i = "Rail_DoomInit" THEN "DoomDispatch" ELSE "ManualDispatch"

InitAppName(i) ==
    CASE i = "Rail_DoomInit" -> <<"Doom">>
      [] i = "setInfo" -> <<"Notepad">>
      [] i = "RailExtension::Initialize" -> <<"Notepad++">>

InitManifest(i) == <<"{", Q, "appName", Q, ":", SP, Q>> \o InitAppName(i) \o <<Q, "}">>

\* The next call of the integration that is starting up.
InitNext(call) ==
    /\ init.integration \in Integrations
    /\ init.step <= Len(InitSteps(init.integration))
    /\ InitSteps(init.integration)[init.step] = call
    /\ init' = [init EXCEPT !.step = @ + 1]

\* rail::Ignite(appName, "1.0.0", manifest) of the integration.
InitIgnite ==
    /\ InitNext("Ignite")
    /\ \E loaded \in BOOLEAN, result \in {0, 1} :
          Ignite(InitAppName(init.integration), InitManifest(init.integration),
                 loaded, TRUE, TRUE, result)

\* rail::SetCustomDispatcher(...) of the integration.
InitSetCustomDispatcher ==
    /\ InitNext("SetCustomDispatcher")
    /\ SetCustomDispatcher(InitDispatcher(init.integration))

InitStart ==
    /\ InitCore /\ catalog = RegistrationOrder /\ coercion = NoCoercion
    /\ init \in {[integration |-> i, step |-> 1] : i \in Integrations}

\* The integration starts up on its thread while the bridge, once it has
\* the callback, delivers commands on its own.
NextStart ==
    \/ InitIgnite
    \/ InitSetCustomDispatcher
    \/ BridgeCallbackAny
    \/ CustomCall
    \/ CustomReturn
    \/ Lock("cb")
    \/ GetBody("cb")
    \/ DispatchFind
    \/ BuiltinReturn

SpecStart == InitStart /\ [][NextStart]_vars

\* The bridge delivers commands on two threads of its own, once an Ignite
\* has connected.
CallbackEnterAny(t) == \E c \in ConcCommands \cup {NullCommand} : CallbackEnter(t, c)

NextBuffer ==
    \/ IgniteCustom
    \/ \E t \in BridgeThreads :
          \/ CallbackEnterAny(t)
          \/ StoreBegin(t)
          \/ StoreEnd(t)
          \/ ReadBegin(t)
          \/ ReadEnd(t)
          \/ CallbackLeave(t)

SpecBuffer == Init /\ [][NextBuffer]_vars

SpecDoom == Init /\ [][NextDoom]_vars

\* ---------------------------------------------- catalogs with hostile text
\* RTTR takes any string as the name of a class, a method or a parameter
\* and as description metadata.  A method without description metadata has
\* desc = <<>> (line 48: the empty string).
HostileParams ==
    {<<>>,
     << [name |-> Q, type |-> BS] >>,
     << [name |-> NL, type |-> "int"], [name |-> "a", type |-> Q] >>}
HostileMethods ==
    {[name |-> n, params |-> ps, ret |-> "int", desc |-> d] :
        n \in {"m", BS, NL}, ps \in HostileParams, d \in {<<>>, <<"x", Q, BS, NL>>}}
PlainMethod == [name |-> "m", params |-> <<>>, ret |-> "int", desc |-> <<>>]

\* No type at all; one class with one method, over every hostile text; and
\* catalogs whose first entry comes after a class without methods or a
\* type that is no class, or is followed by them.
HostileCatalogs ==
    {<<>>}
    \cup {<<TypeRecord(c, TRUE, <<m>>)>> : c \in {"T", Q}, m \in HostileMethods}
    \cup {<<TypeRecord("E", TRUE, <<>>), TypeRecord("int", FALSE, <<>>),
            TypeRecord(Q, TRUE, <<m, PlainMethod>>), TypeRecord("E", TRUE, <<>>),
            TypeRecord(BS, TRUE, <<m>>)>> : m \in HostileMethods}
    \cup {<<TypeRecord("E", TRUE, <<>>)>>, <<TypeRecord("int", FALSE, <<>>)>>}

InitHostile ==
    InitCore /\ catalog \in HostileCatalogs /\ coercion = NoCoercion /\ init = NoInit

SpecManifest == InitHostile /\ [][NextLife]_vars

\* ------------------------------------------- the registry with any variant
\* Register takes its rttr::variant by value and stores whatever it is given
\* (instance_registry.cpp lines 9 to 12; rail.cpp lines 127 and 128 pass the
\* caller's variant on), a default-constructed rttr::variant included.
RegistryCallsAny ==
    RegistryCalls \cup {Call("Register", id, InvalidVariant) : id \in Ids}

AppCallAnyVariant ==
    op["app"].name = "none" /\ \E call \in RegistryCallsAny : AppCall(call)

\* The application calls the registry between dispatches.
NextRegistry ==
    \/ \E t \in Threads : RegistryStep(t)
    \/ pc = "idle" /\ AppCallAnyVariant
    \/ op["app"].name = "none" /\ DispatchAny(ConcCommands)
    \/ DispatchFind
    \/ DispatchInvoke
    \/ HostedReturn
    \/ DebugDispatchReturn

SpecRegistry == Init /\ [][NextRegistry]_vars

\* ------------------------------------------------------------- the claims
Doc == jsonCmd.doc
Dispatching == pc # "idle"
ParsedCommand == Dispatching /\ jsonCmd.parse = "ok"

\* The positions of the dots of a name, and its parts around the last one.
DotPositions(s) == {i \in 1..Len(s) : s[i] = DOT}
LastDot(s) == CHOOSE i \in DotPositions(s) : \A j \in DotPositions(s) : j <= i
BeforeLastDot(s) == SubSeq(s, 1, LastDot(s) - 1)
AfterLastDot(s) == IF DotPositions(s) = {} THEN s ELSE SubSeq(s, LastDot(s) + 1, Len(s))

\* C1: whatever the command text, DispatchCommand returns a syntactically
\* valid JSON object text (every exception ends in a catch clause, so the
\* returned text is all there is to check).
C1_ResponseIsJsonObject == pc = "done" => IsJsonObjectText(response)

\* C2: every response has exactly one of the top-level keys "result" and
\* "error".
C2_ExactlyOneKey ==
    pc = "done" =>
        Cardinality(TopLevelKeys(response) \cap {<<"result">>, <<"error">>}) = 1

\* C3: a Register over an existing mapping replaces it: the registry then
\* holds exactly one entry for the identifier, with the new instance; every
\* Get returns the instance of the last Register that took effect (invalid
\* after an Unregister or with no Register), and no identifier ever has
\* more than one entry.
C3_LastWriteWins ==
    /\ \A id \in Ids : Cardinality(MapFind(_instances, id)) <= 1
    /\ \A t \in Threads :
        /\ (op[t].name = "Register" /\ op[t].phase = "unlock")
              => /\ MapFind(_instances, op[t].id) = {Entry(op[t].id, op[t].value)}
                 /\ MapGet(_instances, op[t].id) = op[t].value
        /\ (op[t].name = "Get" /\ op[t].phase = "unlock" /\ op[t].id \in Ids)
              => op[t].ret = IF lastWrite[op[t].id].registered
                             THEN lastWrite[op[t].id].value
                             ELSE InvalidVariant

\* C3 witness: Register(id, B) has just replaced the mapping id -> A.
C3_Witness ==
    \E t \in Threads :
        /\ op[t].name = "Register" /\ op[t].phase = "unlock"
        /\ op[t].ret = InstA /\ op[t].value = InstB
        /\ MapGet(_instances, op[t].id) = InstB

\* C4: at most one thread is inside a registry operation, and it owns the
\* mutex; a Get or Contains that has read the map returns what the map
\* holds, which is what the operations completed before it left: Contains
\* is true exactly when the last Register or Unregister that took effect
\* on the identifier was a Register.
C4_MutualExclusion ==
    /\ Cardinality({t \in Threads : Inside(t)}) <= 1
    /\ \A t \in Threads : Inside(t) => _mutex = t
    /\ \A t \in Threads :
        /\ (op[t].name = "Get" /\ op[t].phase = "unlock")
              => op[t].ret = MapGet(_instances, op[t].id)
        /\ (op[t].name = "Contains" /\ op[t].phase = "unlock")
              => /\ op[t].ret.valid = (MapFind(_instances, op[t].id) # {})
                 /\ op[t].ret.valid = lastWrite[op[t].id].registered

\* C4 witness: one thread has read an instance inside Get while the other
\* waits at the mutex with a Register for the same identifier.
C4_Witness ==
    \E t \in Threads : \E u \in Threads \ {t} :
        /\ op[t].name = "Get" /\ op[t].phase = "unlock" /\ op[t].ret.valid
        /\ op[u].name = "Register" /\ op[u].phase = "lock"
        /\ op[u].id = op[t].id

\* C5: the callback thread owns the registry mutex only inside a registry
\* operation, never while DispatchCommand resolves or invokes; a thread
\* waiting for the mutex is never stuck: the mutex is free, or its owner is
\* another thread inside a registry operation whose next step is enabled.
C5_NoLockAcrossInvocation ==
    /\ _mutex = "cb" => Inside("cb")
    /\ (pc \in {"resolve", "invoking", "done"} /\ op["cb"].name = "none") => _mutex # "cb"
    /\ \A t \in Threads :
          op[t].phase = "lock"
              => \/ ENABLED Lock(t)
                 \/ \E h \in Threads \ {t} :
                       /\ _mutex = h /\ Inside(h)
                       /\ ENABLED (RegistryStep(h) \/ DispatchFind)

\* C5 witness: the hosted method, in the middle of its invocation, has
\* taken the mutex and changed the registry.
C5_Witness ==
    /\ pc = "invoking"
    /\ op["cb"].name = "Register" /\ op["cb"].phase = "unlock"
    /\ op["app"].phase = "lock"

\* The precedence as the claim states it.
ClaimedField(doc) ==
    IF "class" \in DOMAIN doc.v /\ doc.v["class"] # JNull THEN "class"
    ELSE IF "context" \in DOMAIN doc.v THEN "context"
    ELSE "method"

HasMethodString == ParsedCommand /\ JContains(Doc, "method") /\ JAt(Doc, "method").t = "string"

\* C6: for a command with a method field, the registry lookup uses the
\* class field when it is present and not null, else the context field when
\* it is present, else the part of method before its last dot; a field so
\* selected that is not a string ends the dispatch with no lookup (no lower
\* source is tried).  The method lookup uses the part of method after its
\* last dot.
C6_ContextPrecedence ==
    HasMethodString =>
        LET full == JAt(Doc, "method").v
            f == ClaimedField(Doc)
        IN  /\ (f # "method" /\ Doc.v[f].t = "string")
                  => lookups = <<Doc.v[f].v>> /\ context = Doc.v[f].v
            /\ (f # "method" /\ Doc.v[f].t # "string")
                  => lookups = <<>> /\ pc = "done"
            /\ (f = "method" /\ DotPositions(full) # {})
                  => lookups = <<BeforeLastDot(full)>> /\ context = BeforeLastDot(full)
            /\ (pc \in {"invoking", "done"} /\ instance.valid)
                  => methodName = AfterLastDot(full)

\* C6 witness: {"class": X, "context": C, "method": "Y.Z"} with X, C and Y
\* all different, X and Y both registered, has looked up X and invoked Z.
C6_Witness ==
    /\ pc = "invoking"
    /\ jsonCmd = ObjectCmd(JStr(<<"GetOrderCount", DOT, "GetOrderCount">>),
                           JStr(<<"OrderManager">>), JStr(<<"Ghost">>), Absent)
    /\ MapFind(_instances, <<"GetOrderCount">>) # {}
    /\ lookups = << <<"OrderManager">> >>
    /\ invoked # <<>> /\ invoked[1].method = "GetOrderCount"

\* C7: a parsable command without a method key ends at once in the error
\* "Invalid JSON command structure: missing method": nothing is looked up
\* and nothing is invoked.
C7_MissingMethod ==
    (ParsedCommand /\ ~(Doc.t = "object" /\ "method" \in DOMAIN Doc.v))
        => /\ pc = "done"
           /\ response = ErrorText(<<"Invalid JSON command structure: missing method">>)
           /\ lookups = <<>> /\ invoked = <<>>

\* C7 witness: a command with class, context and args but no method, while
\* the class is a registered identifier.
C7_Witness ==
    /\ pc = "done"
    /\ jsonCmd = ObjectCmd(Absent, JStr(<<"OrderManager">>), JStr(<<"GetOrderCount">>),
                           JArr(<<JStr(<<"x">>), JInt(5)>>))
    /\ MapFind(_instances, <<"OrderManager">>) # {}
    /\ response = MissingMethodText

\* The context as the claim of C6 resolves it (for string fields).
ClaimedContext(doc) ==
    IF ClaimedField(doc) = "method" THEN BeforeLastDot(doc.v["method"].v)
    ELSE doc.v[ClaimedField(doc)].v

\* C8: when the resolved context is not registered at the lookup, the
\* response is the error text "Instance not found: <context>" with that
\* context, and nothing is invoked; the dispatch goes no further.
C8_InstanceNotFound ==
    (Dispatching /\ lookups # <<>> /\ MapFind(_instances, lookups[1]) = {})
        => /\ lookups = <<ClaimedContext(Doc)>>
           /\ invoked = <<>>
           /\ pc \in {"find", "done"}
           /\ pc = "done" => response = ErrorText(<<"Instance not found: ">> \o ClaimedContext(Doc))

\* C8 witness: "Ghost" is looked up and not found while other identifiers
\* are registered.
C8_Witness ==
    /\ pc = "done"
    /\ lookups = << <<"Ghost">> >>
    /\ _instances # {}
    /\ response = ErrorText(<<"Instance not found: ", "Ghost">>)

\* C9: a method field without a dot, with neither class nor context key,
\* ends at once in an error text that holds the method name; the registry
\* is not consulted and nothing is invoked.
C9_NoDotNoContext ==
    (HasMethodString /\ DOMAIN Doc.v \cap {"class", "context"} = {}
        /\ DotPositions(JAt(Doc, "method").v) = {})
        => /\ pc = "done"
           /\ lookups = <<>> /\ invoked = <<>>
           /\ response = ErrorText(
                  <<"Invalid JSON command structure: missing class or context, and method name '">>
                  \o JAt(Doc, "method").v \o <<"' has no dot separator.">>)

\* C9 witness: the method name is itself a registered identifier.
C9_Witness ==
    /\ pc = "done"
    /\ jsonCmd = ObjectCmd(JStr(<<"GetOrderCount">>), Absent, Absent, Absent)
    /\ MapFind(_instances, <<"GetOrderCount">>) # {}
    /\ lookups = <<>>

\* The positional args array that lists the values of a mapping in the
\* declared order of the parameters.
PositionalTwin(m, jArgs) == JArr([i \in 1..Len(m.params) |-> jArgs.v[m.params[i].name]])

ParamNames(m) == {m.params[i].name : i \in 1..Len(m.params)}

\* What the dispatch does with slot values vals (one JSON value per declared
\* parameter): the first coercion that throws, or the coerced list.
RECURSIVE CoerceAll(_, _, _)
CoerceAll(m, vals, i) ==
    IF i > Len(m.params) THEN Value(<<>>)
    ELSE LET r == JsonToVariant(vals[i], m.params[i].type)
             rest == CoerceAll(m, vals, i + 1)
         IN  IF r.thrown THEN r
             ELSE IF rest.thrown THEN rest
             ELSE Value(<<r.v>> \o rest.v)

\* The responses open to a dispatch that has built the argument list args:
\* those of the argument count check, the invocation and the serialization.
ResponsesFor(m, args) ==
    IF Len(m.params) > 6 THEN {TooManyText}
    ELSE IF \A i \in 1..Len(args) : args[i].valid
    THEN {SerializeResult(m, r) : r \in HostedResults(m)}
    ELSE {SerializeResult(m, InvalidVariant)}

ArgsBuilt == pc \in {"invoking", "done"} /\ instance.valid /\ method # InvalidMethod

\* A dispatch whose args name every declared parameter, or list one value
\* per declared parameter.
FullArgs ==
    /\ ArgsBuilt /\ Len(method.params) > 0 /\ JContains(Doc, "args")
    /\ \/ JAt(Doc, "args").t = "object" /\ DOMAIN JAt(Doc, "args").v = ParamNames(method)
       \/ JAt(Doc, "args").t = "array" /\ Len(JAt(Doc, "args").v) = Len(method.params)

\* The values (v1, v2, ...) of such a dispatch, in declared order.
SlotValues ==
    IF JAt(Doc, "args").t = "object" THEN PositionalTwin(method, JAt(Doc, "args")).v
    ELSE JAt(Doc, "args").v

\* C10: positional args [v1, v2] and named args {"b": v2, "a": v1} for
\* declared parameters (a, b) build the same argument list, slot i coerced
\* from vi, and end in the same responses: both are decided by (v1, v2)
\* alone.
C10_PositionalEqualsNamed ==
    FullArgs =>
        LET slots == CoerceAll(method, SlotValues, 1)
        IN  IF slots.thrown
            THEN /\ pc = "done" /\ invoked = <<>>
                 /\ response = DispatchExceptionText(slots.what)
            ELSE /\ argsVariants = slots.v
                 /\ pc = "done" => response \in ResponsesFor(method, slots.v)
                 /\ invoked # <<>> => invoked[1].args = slots.v

\* C10 witness: CreateOrder(clientName, quantity) called with the mapping
\* {"quantity": "7", "clientName": "x"} has bound "x" and 7.
C10_Witness ==
    /\ pc = "done"
    /\ method.name = "CreateOrder"
    /\ JAt(Doc, "args") = JObj([k \in {"quantity", "clientName"} |->
                                  IF k = "quantity" THEN JStr(<<"7">>) ELSE JStr(<<"x">>)])
    /\ argsVariants = <<Variant("string", <<"x">>), Variant("int", 7)>>
    /\ invoked # <<>>
    /\ response = ResultText(<<"true">>)

\* C11: a dispatch that resolves to a method with more than 6 declared
\* parameters ends in the error "Too many arguments (max 6 supported)"
\* whatever the args, with nothing invoked; a method with at most 6 declared
\* parameters never gets this error.
C11_TooManyArguments ==
    (pc = "done" /\ instance.valid /\ method # InvalidMethod)
        => IF Len(method.params) > 6
           THEN /\ response = ErrorText(<<"Too many arguments (max 6 supported)">>)
                /\ invoked = <<>>
           ELSE response # ErrorText(<<"Too many arguments (max 6 supported)">>)

\* A string with no digit in it, supplied for a numeric parameter.
NonNumeric(j, type) ==
    /\ type \in {"int", "float", "double"}
    /\ j.t = "string"
    /\ \A k \in 1..Len(j.v) : j.v[k] \notin Digits

\* The positional slots a bad value stands in.
BadSlots ==
    {i \in 1..Len(method.params) :
        /\ i <= Len(JAt(Doc, "args").v)
        /\ NonNumeric(JAt(Doc, "args").v[i], method.params[i].type)}

\* C12: a positional value that cannot be coerced to its parameter's type
\* (a non-numeric string for a numeric parameter) produces no error of its
\* own: the argument list is built, with that slot unbound and every other
\* supplied slot bound from its value, and the response is the one the
\* invocation stage gives for that argument list.
C12_BadValueLeavesSlotUnbound ==
    (ArgsBuilt /\ pc = "done" /\ Len(method.params) <= 6
        /\ JAt(Doc, "args").t = "array" /\ BadSlots # {})
        => /\ Len(argsVariants) = Len(method.params)
           /\ \A i \in BadSlots : ~argsVariants[i].valid
           /\ \A i \in 1..Len(method.params) \ BadSlots :
                 i <= Len(JAt(Doc, "args").v)
                     => argsVariants[i] = JsonToVariant(JAt(Doc, "args").v[i],
                                                        method.params[i].type).v
           /\ response \in ResponsesFor(method, argsVariants)

\* C13: a dispatch that has called a void method of a registered instance
\* answers with the JSON object whose one member is "result": "void".
C13_VoidResult ==
    (pc = "done" /\ ArgsBuilt /\ method.ret = "void" /\ invoked # <<>>)
        => response \in {ResultText(<<"void">>), <<"{", Q, "result", Q, ":", SP, Q, "void", Q, "}">>}

\* An invocation the invoker refused: the argument list was built and one
\* of its slots is unbound.
InvocationRefused ==
    /\ pc = "done" /\ ArgsBuilt
    /\ Len(argsVariants) = Len(method.params)
    /\ \E i \in 1..Len(argsVariants) : ~argsVariants[i].valid

\* C14: a failed invocation is answered with an object whose one top-level
\* key is "error", whatever the method's return type, and never with a
\* "result".
C14_FailureIsError ==
    InvocationRefused => TopLevelKeys(response) = {<<"error">>}

\* The instance was found and the dispatch is over.
FoundAndDone == pc = "done" /\ HasMethodString /\ instance.valid

\* C17: when the instance is found and its type has no method of exactly
\* the effective name (case matters), the response is the error text
\* "Method not found: <name> on type <type>", which holds both names, and
\* nothing is invoked; when the type has such a method the response is not
\* this error.
C17_MethodNotFound ==
    FoundAndDone =>
        LET name == AfterLastDot(JAt(Doc, "method").v)
            text == ErrorText(<<"Method not found: ">> \o name \o <<" on type ", instance.class>>)
        IN  IF \E m \in TypeMethods(instance.class) : <<m.name>> = name
            THEN response # text
            ELSE response = text /\ invoked = <<>>

\* C17 witness: getordercount is looked for on an OrderManager, which has
\* GetOrderCount.
C17_Witness ==
    /\ FoundAndDone
    /\ JAt(Doc, "method").v = <<"OrderManager", DOT, "getordercount">>
    /\ instance.class = "OrderManager"
    /\ response = ErrorText(<<"Method not found: ", "getordercount", " on type ", "OrderManager">>)

\* The args value of the command, Absent when it has none.
ArgsField == IF "args" \in DOMAIN Doc.v THEN Doc.v["args"] ELSE Absent

\* The number of positional values that meet a parameter.
Met == IF Len(ArgsField.v) < Len(method.params) THEN Len(ArgsField.v) ELSE Len(method.params)

IsNumeric(j) ==
    \/ j.t \in {"int", "float"}
    \/ j.t = "string" /\ j.v # <<>> /\ \A k \in 1..Len(j.v) : j.v[k] \in Digits

\* The integer the claim assigns to it: a number cut to its whole part, a
\* string parsed.
IntegerOf(j) ==
    CASE j.t = "int" -> j.v
      [] j.t = "float" -> j.whole
      [] j.t = "string" -> DigitRun(j.v, 1, 0, 0).value

\* C19: every JSON number and every numeric string supplied for an int
\* parameter gives a bound int argument: the number cut to its whole part,
\* the string parsed.
C19_IntegerCoercion ==
    (ArgsBuilt /\ ArgsField.t = "array"
        /\ \A i \in 1..Met : ~NonNumeric(ArgsField.v[i], method.params[i].type))
        => \A i \in 1..Met :
              (method.params[i].type = "int" /\ IsNumeric(ArgsField.v[i]))
                  => argsVariants[i] = Variant("int", IntegerOf(ArgsField.v[i]))

\* C15: a command that enters BridgeCallback while a custom dispatcher is
\* installed is answered by a custom dispatcher (the installed one, when
\* SetCustomDispatcher is not called during the callback) and
\* DispatchCommand does not run for it: no registry lookup, no method
\* resolution, no invocation; a command that enters while none is installed
\* goes to DispatchCommand.
C15_CustomDispatcherAlone ==
    /\ pc # "idle" => cb.pc = "builtin"
    /\ cb.pc \in {"call", "custom"}
          => lookups = <<>> /\ invoked = <<>> /\ op["cb"].name = "none"
    /\ cb.cmd \notin {NoCommand, NullCommand}
          => IF cb.atEntry = NoDispatcher THEN cb.by = "DispatchCommand"
             ELSE IF cb.pc = "call" THEN cb.by = "none"
             ELSE IF ~cb.changed THEN cb.by = cb.atEntry
             ELSE cb.by \in CustomDispatchers \cup {"bad_function_call"}
    /\ (cb.pc = "idle" /\ cb.by \in CustomDispatchers)
          => g_LastResult \in CustomResults(cb.by)

\* C15 witness: with an OrderManager registered, DoomDispatch is answering
\* a command that DispatchCommand would have invoked CreateOrder for, and
\* the buffer still holds a response of DispatchCommand.
C15_Witness ==
    /\ cb.pc = "custom"
    /\ cb.cmd = ObjectCmd(JStr(<<"CreateOrder">>), Absent, JStr(<<"OrderManager">>),
                          JArr(<<JStr(<<"x">>), JInt(5)>>))
    /\ cb.atEntry = "DoomDispatch" /\ cb.by = "DoomDispatch"
    /\ MapFind(_instances, <<"OrderManager">>) # {}
    /\ g_LastResult = ResultText(<<"true">>)

\* By how much the nesting depth changes over positions lo..hi of a text.
RECURSIVE Net(_, _, _)
Net(t, lo, hi) ==
    IF lo > hi THEN 0
    ELSE IF lo = hi THEN (IF t[lo] = "{" THEN 1 ELSE IF t[lo] = "}" THEN -1 ELSE 0)
    ELSE LET mid == (lo + hi) \div 2
         IN  Net(t, lo, mid) + Net(t, mid + 1, hi)

\* The positions among lo..hi where an object opens at nesting depth level,
\* depth being the depth before lo.
RECURSIVE OpensIn(_, _, _, _, _)
OpensIn(t, level, lo, hi, depth) ==
    IF lo > hi THEN <<>>
    ELSE IF lo = hi THEN (IF t[lo] = "{" /\ depth = level THEN <<lo>> ELSE <<>>)
    ELSE LET mid == (lo + hi) \div 2
         IN  OpensIn(t, level, lo, mid, depth)
             \o OpensIn(t, level, mid + 1, hi, depth + Net(t, lo, mid))

OpensAt(t, level) == OpensIn(t, level, 1, Len(t), 0)

\* The string value of the "name" member an object at position i starts
\* with.
NameAt(t, i) ==
    LET from == i + 7
        close == CHOOSE q \in from..Len(t) :
                    t[q] = Q /\ \A r \in from..(q - 1) : t[r] # Q
    IN  SubSeq(t, from, close - 1)

\* The entries of the functions array as the text lists them: each one's
\* name and the names of its parameters in order.
ManifestEntries(t) ==
    LET funcs == OpensAt(t, 1)
        params == OpensAt(t, 2)
        EntryAt(k) ==
            LET lo == funcs[k]
                hi == IF k < Len(funcs) THEN funcs[k + 1] ELSE Len(t) + 1
                Inside2(q) == lo < q /\ q < hi
                mine == SelectSeq(params, Inside2)
            IN  [name |-> NameAt(t, lo), params |-> [n \in 1..Len(mine) |-> NameAt(t, mine[n])]]
    IN  [k \in 1..Len(funcs) |-> EntryAt(k)]

\* The entries the catalog calls for: one per method of a class type.
CatalogEntries ==
    UNION {{[name |-> <<catalog[i].name, DOT, catalog[i].methods[j].name>>,
             params |-> [n \in 1..Len(catalog[i].methods[j].params) |->
                            <<catalog[i].methods[j].params[n].name>>]]
              : j \in 1..Len(catalog[i].methods)}
           : i \in {i \in 1..Len(catalog) : catalog[i].isClass}}

Generated == bridge.manifest \notin CustomManifests \cup {NoManifest}

\* C16: the functions array of a generated manifest has exactly one entry
\* "<Type>.<Method>" per method of each class type of the catalog, with the
\* method's parameters in declared order, and no other entry, in whatever
\* order the catalog is traversed.
C16_ManifestComplete ==
    Generated =>
        LET entries == ManifestEntries(bridge.manifest)
        IN  /\ Len(entries) = Cardinality(CatalogEntries)
            /\ {entries[k] : k \in 1..Len(entries)} = CatalogEntries

\* C16 witness: a manifest generated from a catalog that lists int first
\* and OrderManager last, CancelOrder before CreateOrder.
C16_Witness ==
    /\ Generated
    /\ catalog[1].name = "int" /\ catalog[3].name = "OrderManager"
    /\ catalog[3].methods[1].name = "CancelOrder"
    /\ ManifestEntries(bridge.manifest)[3].name = <<"OrderManager", DOT, "CancelOrder">>
    /\ ManifestEntries(bridge.manifest)[5].params = << <<"clientName">>, <<"quantity">> >>

\* C20: IsConnected() is true exactly when the last Ignite or Disconnect to
\* complete was an Ignite that returned true (false before any of them),
\* and Rail_Disconnect has been called at most once per successful Ignite.
C20_ConnectedIffLastIgniteSucceeded ==
    /\ IsConnected = (life.call = "Ignite" /\ life.ret)
    /\ bridge.disconnects <= bridge.ignites

\* The entries of a map under every identifier but id.
Others(m, id) == {e \in m : e.id # id}

\* C21: the step of Unregister(id) leaves no entry under id, so that
\* Contains(id) is false and Get(id) gives the invalid variant; it changes
\* nothing at all when id had no entry, and never an entry of another
\* identifier.  The step of Register(id, x) changes no entry of another
\* identifier either.
C21_FrameEffect ==
    [][\A t \in Threads :
          /\ UnregisterBody(t)
                => /\ MapFind(_instances', op[t].id) = {}
                   /\ MapGet(_instances', op[t].id) = InvalidVariant
                   /\ Others(_instances', op[t].id) = Others(_instances, op[t].id)
                   /\ MapFind(_instances, op[t].id) = {} => _instances' = _instances
          /\ RegisterBody(t)
                => Others(_instances', op[t].id) = Others(_instances, op[t].id)]_vars

\* C21 witness: Unregister has removed the entry of one identifier while
\* another identifier is registered, and the other thread is about to ask
\* for the removed one.
C21_Witness ==
    \E t \in Threads : \E u \in Threads \ {t} :
        /\ op[t].name = "Unregister" /\ op[t].phase = "unlock" /\ op[t].ret.valid
        /\ Others(_instances, op[t].id) # {}
        /\ op[u].name \in {"Get", "Contains"} /\ op[u].id = op[t].id

\* The string form of a returned value: decimal digits for an int, true or
\* false for a bool, the characters of a string.
StringForm(value) ==
    CASE value.type = "int" -> IntText(value.v)
      [] value.type = "bool" -> (IF value.v THEN <<"true">> ELSE <<"false">>)
      [] value.type = "string" -> value.v

\* C22: a dispatch that has called a method with a return type other than
\* void answers with a JSON object whose one member is "result", and its
\* value is a JSON string that holds the string form of a value the method
\* returns: never a native number or boolean.
C22_ResultIsString ==
    (pc = "done" /\ invoked # <<>> /\ method.ret # "void")
        => /\ ReadObject(response).ok
           /\ \E value \in HostedResults(method) :
                 ReadObject(response).members
                     = <<[key |-> <<"result">>, value |-> StringForm(value)]>>

\* C22 witness: GetOrderCount has returned 1 and the response holds it as
\* the string "1".
C22_Witness ==
    /\ pc = "done" /\ invoked # <<>>
    /\ method.name = "GetOrderCount"
    /\ response = <<"{", Q, "result", Q, ":", Q, "1", Q, "}">>

\* A call of JsonToVariant that has returned or thrown.
Coerced == coercion.pc = "returned"

\* C23: for the target type bool a JSON boolean gives a bound argument of
\* that value, a JSON string gives a bound argument that is true exactly
\* when the string is "true" (case matters), and every other JSON value
\* leaves the slot unbound; nothing is thrown.
C23_BooleanCoercion ==
    (Coerced /\ coercion.targetType = "bool")
        => LET j == coercion.jVal
           IN  /\ ~coercion.out.thrown
               /\ coercion.out.v =
                     IF j.t = "bool" THEN Variant("bool", j.v)
                     ELSE IF j.t = "string" THEN Variant("bool", j.v = <<"true">>)
                     ELSE InvalidVariant

\* C23 witness: the string "True" has given a bound false.
C23_Witness ==
    /\ Coerced /\ coercion.targetType = "bool"
    /\ coercion.jVal = JStr(<<"True">>)
    /\ coercion.out = Value(Variant("bool", FALSE))

\* C24: for the target type string every JSON value gives a bound string
\* argument: a JSON string its own characters, any other value its JSON
\* text; for a target type that is none of int, float, double, bool and
\* string the slot stays unbound and nothing is thrown.
C24_StringCoercion ==
    Coerced =>
        LET j == coercion.jVal
        IN  /\ coercion.targetType = "string"
                  => /\ ~coercion.out.thrown
                     /\ coercion.out.v.valid /\ coercion.out.v.type = "string"
                     /\ coercion.out.v.v = IF j.t = "string" THEN j.v ELSE JDump(j)
                     /\ j = JNull => coercion.out.v.v = <<"null">>
                     /\ j = JInt(5) => coercion.out.v.v = <<"5">>
                     /\ j = JBool(FALSE) => coercion.out.v.v = <<"false">>
            /\ coercion.targetType \notin {"int", "float", "double", "bool", "string"}
                  => coercion.out = Value(InvalidVariant)

\* C24 witness: the array [true, "x"] has become the string [true,"x"].
C24_Witness ==
    /\ Coerced /\ coercion.targetType = "string"
    /\ coercion.jVal = JArr(<<JBool(TRUE), JStr(<<"x">>)>>)
    /\ coercion.out = Value(Variant("string", <<"[", "true", ",", Q, "x", Q, "]">>))

\* The values a command supplies for numeric parameters of m that no
\* number can be read from.
SuppliedNonNumeric(m, doc) ==
    LET a == IF "args" \in DOMAIN doc.v THEN doc.v["args"] ELSE Absent
    IN  {i \in 1..Len(m.params) :
            \/ a.t = "array" /\ i <= Len(a.v) /\ NonNumeric(a.v[i], m.params[i].type)
            \/ a.t = "object" /\ m.params[i].name \in DOMAIN a.v
                  /\ NonNumeric(a.v[m.params[i].name], m.params[i].type)}

\* The stages after the instance is found: method resolution, argument
\* building, invocation, serialization.
LateStages(doc, found) ==
    LET name == AfterLastDot(doc.v["method"].v)
        ms == {m \in TypeMethods(found.class) : <<m.name>> = name}
        m == CHOOSE x \in ms : TRUE
    IN  IF ms = {}
        THEN response = MethodNotFoundText(name, found.class) /\ invoked = <<>>
        ELSE IF SuppliedNonNumeric(m, doc) # {}
        THEN /\ response \in {DispatchExceptionText(<<fn>>) : fn \in {"stoi", "stof", "stod"}}
             /\ invoked = <<>>
        ELSE IF Len(m.params) > 6
        THEN response = TooManyText /\ invoked = <<>>
        ELSE \/ invoked = <<>> /\ response \in {InvocationFailedText, VoidText}
             \/ /\ Len(invoked) = 1 /\ invoked[1].method = m.name
                /\ response \in {SerializeResult(m, r) : r \in HostedResults(m)}

\* C25: the response of a dispatch is that of the first stage that fails,
\* in the order parse, method field, context, instance lookup, method
\* resolution, argument building, invocation, serialization; the registry is
\* asked only when the stages before the lookup passed, and the hosted
\* method is called at most once, only when every stage before the
\* invocation passed.
C25_StageOrder ==
    /\ Len(invoked) <= 1 /\ Len(lookups) <= 1
    /\ pc = "done" =>
          IF jsonCmd.parse = "error"
          THEN /\ response = ParseErrorText(ParseErrorWhat(jsonCmd.what))
               /\ lookups = <<>> /\ invoked = <<>>
          ELSE IF ~(Doc.t = "object" /\ "method" \in DOMAIN Doc.v)
          THEN response = MissingMethodText /\ lookups = <<>> /\ invoked = <<>>
          ELSE IF Doc.v["method"].t # "string"
          THEN /\ response = DispatchExceptionText(TypeErrorWhat(Doc.v["method"]))
               /\ lookups = <<>> /\ invoked = <<>>
          ELSE IF ClaimedField(Doc) # "method" /\ Doc.v[ClaimedField(Doc)].t # "string"
          THEN /\ response = DispatchExceptionText(TypeErrorWhat(Doc.v[ClaimedField(Doc)]))
               /\ lookups = <<>> /\ invoked = <<>>
          ELSE IF ClaimedField(Doc) = "method" /\ DotPositions(Doc.v["method"].v) = {}
          THEN /\ response = NoDotText(Doc.v["method"].v)
               /\ lookups = <<>> /\ invoked = <<>>
          ELSE IF MapFind(_instances, ClaimedContext(Doc)) = {}
          THEN /\ response = InstanceNotFoundText(ClaimedContext(Doc))
               /\ lookups = <<ClaimedContext(Doc)>> /\ invoked = <<>>
          ELSE /\ lookups = <<ClaimedContext(Doc)>>
               /\ LateStages(Doc, MapGet(_instances, ClaimedContext(Doc)))

\* C25 witness: a method no type has, called with seven arguments on a
\* registered instance, is answered with the error of the method resolution.
C25_Witness ==
    /\ pc = "done"
    /\ jsonCmd = ObjectCmd(JStr(<<"Ghost">>), JStr(<<"OrderManager">>), Absent, JArr(Fives(7)))
    /\ instance.valid /\ invoked = <<>>
    /\ response = ErrorText(<<"Method not found: ", "Ghost", " on type ", instance.class>>)

\* A dispatch that an exception other than a parse error ended: a method,
\* class or context field that is no string, or a string no number can be
\* read from supplied for a numeric parameter.
OtherException ==
    /\ ParsedCommand /\ pc = "done" /\ JContains(Doc, "method")
    /\ \/ JAt(Doc, "method").t # "string"
       \/ ClaimedField(Doc) # "method" /\ Doc.v[ClaimedField(Doc)].t # "string"
       \/ instance.valid /\ method # InvalidMethod /\ SuppliedNonNumeric(method, Doc) # {}

\* C26: a command text that is no JSON document is answered with a JSON
\* object whose one member is "error", with a message that begins with
\* "JSON parse error: ", and nothing is looked up or invoked; a dispatch
\* that any other exception ends is answered with an object whose one
\* top-level key is "error".
C26_ExceptionsBecomeErrors ==
    /\ (pc = "done" /\ jsonCmd.parse = "error")
          => /\ lookups = <<>> /\ invoked = <<>>
             /\ ReadObject(response).ok
             /\ Len(ReadObject(response).members) = 1
             /\ ReadObject(response).members[1].key = <<"error">>
             /\ ReadObject(response).members[1].value # <<>>
             /\ ReadObject(response).members[1].value[1] = "JSON parse error: "
    /\ OtherException => TopLevelKeys(response) = {<<"error">>}

\* C27: the name the method is looked up under is the part of the method
\* field after its last dot (the whole field when it has none).  With no
\* class or context field, the context is what stands before that dot and
\* the name what stands after it; with one, the name is cut at the last dot
\* once the instance is found, whatever stands before the dot.
C27_EffectiveMethodName ==
    (HasMethodString /\ lookups # <<>>) =>
        LET full == JAt(Doc, "method").v
            name == AfterLastDot(full)
            named == {m \in TypeMethods(instance.class) : <<m.name>> = name}
        IN  /\ ClaimedField(Doc) = "method"
                  => context = BeforeLastDot(full) /\ methodName = name
            /\ (pc \in {"invoking", "done"} /\ instance.valid)
                  => /\ methodName = name
                     /\ method \in (IF named = {} THEN {InvalidMethod} ELSE named)
                     /\ (pc = "done" /\ named = {})
                           => response = ErrorText(<<"Method not found: ">> \o name
                                                   \o <<" on type ", instance.class>>)

\* C27 witness: the method Ghost.OrderManager.GetOrderCount with the context
\* OrderManager has called GetOrderCount.
C27_Witness ==
    /\ pc = "invoking"
    /\ jsonCmd = ObjectCmd(JStr(<<"Ghost", DOT, "OrderManager", DOT, "GetOrderCount">>),
                           Absent, JStr(<<"OrderManager">>), Absent)
    /\ lookups = << <<"OrderManager">> >>
    /\ invoked # <<>> /\ invoked[1].method = "GetOrderCount"

\* C28: a dispatch whose lookup found an instance calls the method on that
\* instance and answers with what the call gives, never with "Instance not
\* found", whatever the registry holds for the identifier by the time of
\* the call.
C28_NoInvocationAtomicity ==
    /\ (pc \in {"resolve", "invoking", "done"} /\ instance.valid)
          => response # ErrorText(<<"Instance not found: ">> \o context)
    /\ invoked # <<>>
          => /\ instance.valid
             /\ invoked[1].obj = instance.obj
             /\ pc = "done"
                   => response \in {SerializeResult(method, r) : r \in HostedResults(method)}

\* C28 witness: the instance A was looked up; by the time of the call the
\* identifier was registered to B, or to nothing; the method was called on
\* A and the dispatch has its result.
C28_Witness ==
    /\ pc = "done" /\ invoked # <<>>
    /\ instance = InstA /\ invoked[1].obj = "A"
    /\ invoked[1].atCall = InvalidVariant
    /\ response = <<"{", Q, "result", Q, ":", Q, "1", Q, "}">>

\* C29: no step of DispatchCommand changes the registry: the one registry
\* operation it calls is Get, and every step that changes the map is the
\* Register or Unregister of the application thread, or of the hosted
\* method while it runs inside the invocation.
C29_DispatchLeavesRegistry ==
    [][/\ pc = "find" => op["cb"].name = "Get"
       /\ _instances' # _instances
             => \E t \in Threads :
                   /\ RegisterBody(t) \/ UnregisterBody(t)
                   /\ t = "cb" => pc = "invoking"]_vars

\* C29 witness: a dispatch has called its method and has its response, and
\* both identifiers are registered as they were at the lookup.
C29_Witness ==
    /\ pc = "done" /\ invoked # <<>>
    /\ op["app"].name = "none" /\ op["cb"].name = "none"
    /\ \A id \in Ids : MapFind(_instances, id) # {}
    /\ MapGet(_instances, context) = instance

\* C30: in an integration that installs a custom dispatcher, DispatchCommand
\* never runs for a command the bridge delivers: no callback is answered by
\* it, whatever the interleaving of the callback thread with the thread
\* that starts the integration up.
C30_CustomDispatcherBeforeCallbacks ==
    init.integration \in Integrations
        => /\ pc = "idle"
           /\ cb.by # "DispatchCommand"

\* C31: the text a caller of BridgeCallback copies through the pointer it
\* was handed is the response to its own command, and the buffer is not
\* assigned to while the caller copies it.
C31_ResponseOfSameCommand ==
    \A t \in BridgeThreads :
        /\ ipc[t].pc = "read" => ipc[t].read = ipc[t].result
        /\ ipc[t].pc = "reading" => ~ipc[t].raced

\* What Contains(id) and Get(id) return in the current state of the registry.
ContainsNow(id) == MapFind(_instances, id) # {}
GetNow(id) == MapGet(_instances, id)

\* C32: after any sequence of Register and Unregister calls, Contains(id)
\* is true exactly when Get(id) returns a valid instance, whatever value the
\* identifier was registered with; and a finished dispatch answers
\* "Instance not found" for its context exactly when Contains(context) is
\* false.
C32_ContainsIffGetValid ==
    /\ \A id \in Ids : ContainsNow(id) <=> GetNow(id).valid
    /\ (pc = "done" /\ lookups # <<>>)
           => (response = InstanceNotFoundText(context) <=> ~ContainsNow(context))

\* --------------------------------------------------- reading a JSON text
\* A JSON reader over a text of strings, objects and arrays (the manifest
\* holds no number and no literal): the value that starts at a position and
\* the position after it, or NotJson.  Objects keep their members in text
\* order.
NotJson == [ok |-> FALSE, next |-> 0, v |-> JNull]
Read(next, v) == [ok |-> TRUE, next |-> next, v |-> v]
Member(key, value) == [key |-> key, value |-> value]
JMembers(seq) == [t |-> "members", v |-> seq]
HexDigits == {"0", "1", "2", "3", "4", "5", "6", "7", "8", "9", "a", "b", "c", "d", "e", "f"}

\* The character \uXXXX stands for.
CodeChar(h) == IF h = <<"0", "0", "0", "a">> THEN NL ELSE <<"u">> \o h

\* From inside a string at i, acc being the characters read so far.
RECURSIVE JsonChars(_, _, _)
JsonChars(t, i, acc) ==
    IF i > Len(t) THEN NotJson
    ELSE IF t[i] = Q THEN Read(i + 1, JStr(acc))
    ELSE IF t[i] = BS
         THEN IF i + 1 > Len(t) THEN NotJson
              ELSE IF t[i + 1] \in {Q, BS} THEN JsonChars(t, i + 2, Append(acc, t[i + 1]))
              ELSE IF t[i + 1] = "n" THEN JsonChars(t, i + 2, Append(acc, NL))
              ELSE IF /\ t[i + 1] = "u"
                      /\ i + 5 <= Len(t)
                      /\ \A k \in 2..5 : t[i + k] \in HexDigits
                   THEN JsonChars(t, i + 6, Append(acc, CodeChar(SubSeq(t, i + 2, i + 5))))
              ELSE NotJson
    ELSE IF IsControl(t[i]) THEN NotJson
    ELSE JsonChars(t, i + 1, Append(acc, t[i]))

RECURSIVE JsonValue(_, _)
RECURSIVE JsonMembers(_, _, _)
RECURSIVE JsonElements(_, _, _)

\* "key" : value, then a comma and the next member, or the closing brace.
JsonMembers(t, i, acc) ==
    IF i > Len(t) \/ t[i] # Q THEN NotJson
    ELSE LET k == JsonChars(t, i + 1, <<>>)
         IN  IF ~k.ok THEN NotJson
             ELSE LET c == SkipWs(t, k.next)
                  IN  IF c > Len(t) \/ t[c] # ":" THEN NotJson
                      ELSE LET val == JsonValue(t, c + 1)
                           IN  IF ~val.ok THEN NotJson
                               ELSE LET n == SkipWs(t, val.next)
                                        all == Append(acc, Member(k.v.v, val.v))
                                    IN  IF n > Len(t) THEN NotJson
                                        ELSE IF t[n] = "}" THEN Read(n + 1, JMembers(all))
                                        ELSE IF t[n] = ","
                                             THEN JsonMembers(t, SkipWs(t, n + 1), all)
                                        ELSE NotJson

\* value, then a comma and the next element, or the closing bracket.
JsonElements(t, i, acc) ==
    LET val == JsonValue(t, i)
    IN  IF ~val.ok THEN NotJson
        ELSE LET n == SkipWs(t, val.next)
                 all == Append(acc, val.v)
             IN  IF n > Len(t) THEN NotJson
                 ELSE IF t[n] = "]" THEN Read(n + 1, JArr(all))
                 ELSE IF t[n] = "," THEN JsonElements(t, n + 1, all)
                 ELSE NotJson

JsonValue(t, from) ==
    LET i == SkipWs(t, from)
    IN  IF i > Len(t) THEN NotJson
        ELSE IF t[i] = Q THEN JsonChars(t, i + 1, <<>>)
        ELSE IF t[i] = "{"
             THEN LET j == SkipWs(t, i + 1)
                  IN  IF j <= Len(t) /\ t[j] = "}" THEN Read(j + 1, JMembers(<<>>))
                      ELSE JsonMembers(t, j, <<>>)
        ELSE IF t[i] = "["
             THEN LET j == SkipWs(t, i + 1)
                  IN  IF j <= Len(t) /\ t[j] = "]" THEN Read(j + 1, JArr(<<>>))
                      ELSE JsonElements(t, j, <<>>)
        ELSE NotJson

\* The whole text is one JSON value.
JsonDocument(t) ==
    LET r == JsonValue(t, 1)
    IN  IF r.ok /\ SkipWs(t, r.next) > Len(t) THEN r ELSE NotJson

\* The document the catalog calls for: one entry per method of each class
\* type in traversal order, every text as registered.
ExpectedParam(p) ==
    JMembers(<<Member(<<"name">>, JStr(<<p.name>>)),
               Member(<<"type">>, JStr(<<TypeName(p.type)>>))>>)
ExpectedMethod(className, m) ==
    JMembers(<<Member(<<"name">>, JStr(<<className, DOT, m.name>>)),
               Member(<<"description">>, JStr(m.desc)),
               Member(<<"parameters">>,
                      JArr([n \in 1..Len(m.params) |-> ExpectedParam(m.params[n])]))>>)
RECURSIVE ExpectedFunctions(_)
ExpectedFunctions(types) ==
    IF types = <<>> THEN <<>>
    ELSE LET t == Head(types)
         IN  (IF t.isClass
              THEN [j \in 1..Len(t.methods) |-> ExpectedMethod(t.name, t.methods[j])]
              ELSE <<>>)
             \o ExpectedFunctions(Tail(types))
ExpectedManifest(appName) ==
    JMembers(<<Member(<<"language">>, JStr(<<"cpp">>)),
               Member(<<"appName">>, JStr(appName)),
               Member(<<"functions">>, JArr(ExpectedFunctions(catalog)))>>)

\* C34: a generated manifest is a valid JSON document whose strings hold
\* no raw double quote, backslash or control character and whose entries
\* are separated by exactly one comma; read back, it is the object
\* {language, appName, functions} with every embedded text (application
\* name, "<Type>.<Method>", description, parameter name, type name) as it
\* was registered, for every catalog, the empty one and methods without
\* description included.
C34_ManifestIsEscapedJson ==
    Generated =>
        LET r == JsonDocument(bridge.manifest)
        IN  /\ r.ok
            /\ \E appName \in AppNames : r.v = ExpectedManifest(appName)

\* C34 witness: a manifest generated under an application name with a
\* quote, a backslash and a newline, from a catalog whose class is named by
\* a quote and whose method has a hostile description and hostile
\* parameter and type names, with a method without description after it.
C34_Witness ==
    /\ Generated
    /\ Len(catalog) = 5 /\ catalog[3].name = Q
    /\ catalog[3].methods[1].name = BS
    /\ catalog[3].methods[1].desc = <<"x", Q, BS, NL>>
    /\ Len(catalog[3].methods[1].params) = 2
    /\ JsonDocument(bridge.manifest).ok
    /\ JsonDocument(bridge.manifest).v = ExpectedManifest(<<"Cpp", Q, BS, NL>>)
    /\ Len(JsonDocument(bridge.manifest).v.v[3].value.v) = 3

\* The fields of the tick command an override writes.
Untouched(s, cmd) ==
    CASE s = "move" -> cmd.forwardmove = BaseCmd.forwardmove /\ cmd.sidemove = BaseCmd.sidemove
      [] s = "turn" -> cmd.angleturn = BaseCmd.angleturn
      [] s = "fire" -> "BT_ATTACK" \notin cmd.buttons
      [] s = "use" -> "BT_USE" \notin cmd.buttons

\* C33: no override counter is ever negative; between two ticks, with no
\* command under way, the ticks that applied an override since its last
\* command and the ticks its counter still holds add up to the count that
\* command stored (so the override is applied on exactly that many ticks
\* and then stops); and a tick that found a counter at 0 hands on the
\* corresponding fields of the tick command as it got them.
C33_OverridesCountDown ==
    /\ \A s \in SectionNames : g_agent[Counter(s)] >= 0
    /\ (doom.game.pc = "idle" /\ doom.call.pc = "idle")
          => \A s \in SectionNames : doom.applied[s] + g_agent[Counter(s)] = doom.set[s]
    /\ doom.game.pc = "built"
          => \A s \in SectionNames \ doom.game.ran : Untouched(s, doom.game.cmd)
====
